---- MODULE Spec2Model ----
(***************************************************************************)
(* A model of ilidar-tool.py, the host-side tool for iLidar sensors.       *)
(* The module models cmd_update_run (firmware update / overwrite) as a     *)
(* state machine: one action per step of the function, the network as a    *)
(* nondeterministic source of datagrams for every non-blocking recvfrom.   *)
(*                                                                         *)
(* Python sequences are 0-indexed, TLA+ sequences 1-indexed: x[k] of the   *)
(* source is x[k+1] here.                                                  *)
(***************************************************************************)
EXTENDS Integers, Sequences, FiniteSets, TLC

\* ------------------------------------------------------------------------
\* Program constants
\* ------------------------------------------------------------------------
\* for _o in range(256)
NumBlocks == 256
\* the ack body carries a 32-byte bitmap, flash_ack[8:40]
BitmapBytes == 32
\* target_hw_id = info[1]['sensor_hw_id'][0:12]
HwKeyLen == 12
\* dst['sensor_hw_id'] = src[2:32]
HwIdLen == 30
\* len(data) == (166 + 8)
InfoFrameLen == 174
\* len(flash_ack) == (34 + 8)
AckFrameLen == 42
\* len(check_flash) == (28 + 8)
StatusFrameLen == 36

\* ------------------------------------------------------------------------
\* Addresses.  An IPv4 address is a tuple of four octets.
\* ------------------------------------------------------------------------
RECURSIVE BitAnd(_, _, _)
BitAnd(x, y, n) ==
    IF n = 0 THEN 0
    ELSE (IF x % 2 = 1 /\ y % 2 = 1 THEN 1 ELSE 0) + 2 * BitAnd(x \div 2, y \div 2, n - 1)

\* is_in_subnet: ipaddress.ip_address(target_ip) in ip_network(subnet_ip/subnet_mask, strict=False)
is_in_subnet(target_ip, subnet_ip, subnet_mask) ==
    \A k \in 1..4 : BitAnd(target_ip[k], subnet_mask[k], 8) = BitAnd(subnet_ip[k], subnet_mask[k], 8)

\* net_msg['listening_list']: the endpoints handed to the command, in dict order.
\* Endpoint 1 listens on two data ports, endpoint 2 on one; the subnets are disjoint.
host_list ==
    << [ip |-> <<192, 168, 5, 2>>, subnet |-> <<255, 255, 255, 0>>,
        config |-> <<192, 168, 5, 255>>, port |-> <<7256, 7258>>],
       [ip |-> <<10, 0, 0, 2>>, subnet |-> <<255, 255, 255, 0>>,
        config |-> <<10, 0, 0, 255>>, port |-> <<7256>>] >>

Endpoints == 1..Len(host_list)

\* sensor addresses of the modelled network
IpA == <<192, 168, 5, 10>>
IpB == <<10, 0, 0, 11>>
IpX == <<172, 16, 0, 9>>
\* a station that is not a sensor of the run
IpF == <<192, 168, 5, 77>>

AllIps == {IpA, IpB, IpX, IpF}

\* is_in_subnet for the sockets.items() loops: endpoint e's subnet contains ip t
InSubnetTable ==
    [t \in AllIps |-> [e \in Endpoints |-> is_in_subnet(t, host_list[e].ip, host_list[e].subnet)]]

EpHas(e, t) == InSubnetTable[t][e]

\* the data socket and config socket created last (lines 1704, 1718): the
\* names sockData and sockConfig stay bound to them after the creation loop
sockData == <<Len(host_list), Len(host_list[Len(host_list)].port)>>
sockConfig == Len(host_list)

\* ------------------------------------------------------------------------
\* Records on the wire
\* ------------------------------------------------------------------------
\* hardware ids (30 bytes): HwA is the id the firmware files are built for,
\* HwB differs from it inside the first 12 bytes, HwC only after them
HwA == [k \in 1..HwIdLen |-> 17]
HwB == [k \in 1..HwIdLen |-> IF k = HwKeyLen THEN 18 ELSE 17]
HwC == [k \in 1..HwIdLen |-> IF k = HwKeyLen + 1 THEN 18 ELSE 17]

\* version triples are (patch, minor, major), as decode_info_v2 slices them
FileVer == <<2, 0, 1>>
OldVer == <<1, 0, 1>>

\* the fields of decode_info_v2's result that cmd_update_run reads
InfoRec(sn, hw, fw, fw1, boot, lk) ==
    [sensor_sn |-> sn, sensor_hw_id |-> hw, sensor_fw_ver |-> fw,
     sensor_fw1_ver |-> fw1, sensor_boot_ctrl |-> boot, lock |-> lk]

NoInfo == InfoRec(0, HwA, <<0, 0, 0>>, <<0, 0, 0>>, 0, 0)

\* ack bitmaps: bit i of the bitmap is bit (i mod 8) of byte (i div 8)
RECURSIVE Pow2(_)
Pow2(n) == IF n = 0 THEN 1 ELSE 2 * Pow2(n - 1)

\* the bitmap with exactly the bits 0..n-1 set
PrefixBits(n) ==
    [k \in 1..BitmapBytes |->
        IF 8 * k <= n THEN 255
        ELSE IF 8 * (k - 1) >= n THEN 0
        ELSE Pow2(n - 8 * (k - 1)) - 1]

ZeroBits == PrefixBits(0)
AllBits == PrefixBits(8 * BitmapBytes)

\* a received datagram: sender address, length, first six bytes (by name),
\* and the decoded body where the frame has one
Dgram(src, len, hdr, info, bits) ==
    [src |-> src, len |-> len, hdr |-> hdr, info |-> info, bits |-> bits]

NoData == Dgram(<<0, 0, 0, 0>>, 0, "none", NoInfo, ZeroBits)

InfoFrame(src, info) == Dgram(src, InfoFrameLen, "info_v2_header", info, ZeroBits)
AckFrame(src, bits) == Dgram(src, AckFrameLen, "ack_header", NoInfo, bits)
StatusFrame(src) == Dgram(src, StatusFrameLen, "status_header", NoInfo, ZeroBits)
\* an info frame cut short by one byte
ShortInfoFrame(src, info) == Dgram(src, InfoFrameLen - 1, "info_v2_header", info, ZeroBits)

\* mutation of IsInfoV2: the header alone decides
IsInfoV2_AnyLength(d) == d.hdr = "info_v2_header"

\* len(data) == (166 + 8) and data[:6] == info_v2_header
IsInfoV2(d) == d.len = 166 + 8 /\ d.hdr = "info_v2_header"

\* len(flash_ack) == (34 + 8) and flash_ack[:6] == ack_header
IsAck(d) == d.len = 34 + 8 /\ d.hdr = "ack_header"
\* status or status-full frame (line 2071)
IsStatus(d) ==
    \/ d.len = 28 + 8 /\ d.hdr = "status_header"
    \/ d.len = 312 + 8 /\ d.hdr = "status_full_header"

\* mutation of AckBit: the index is off by one
AckBit_NextBit(d, i) == IF i + 1 < 256 THEN (d.bits[((i + 1) \div 8) + 1] \div Pow2((i + 1) % 8)) % 2 ELSE 0

\* mutation of AckBit: the byte index _o//8 is dropped
AckBit_FirstByte(d, i) == (d.bits[1] \div Pow2(i % 8)) % 2

\* (flash_ack[8 + (_o//8)] >> (_o%8)) & 0x01
AckBit(d, i) == (d.bits[(i \div 8) + 1] \div Pow2(i % 8)) % 2

\* mutation of is_all_zero: the bitmap is not looked at
is_all_zero_Any(d) == TRUE

\* all(byte == 0 for byte in flash_ack[8:40])
is_all_zero(d) == \A k \in 1..BitmapBytes : d.bits[k] = 0

\* What an observer of the network sees in a datagram (used for the history
\* variables only, never by the host's steps)
ObsBit(d, i) == (d.bits[(i \div 8) + 1] \div Pow2(i % 8)) % 2 = 1
ObsAck(d) == d.len = AckFrameLen /\ d.hdr = "ack_header"
ObsZeroAck(d) == ObsAck(d) /\ d.bits = ZeroBits
ObsInfo(d) == d.len = InfoFrameLen /\ d.hdr = "info_v2_header"

\* a frame the host sends: command name, serial in bytes 8..9, destination
\* address, and the endpoint whose config socket sends it
Frame(kind, sn, dst, via) == [kind |-> kind, sn |-> sn, dst |-> dst, via |-> via]

\* mutation of Broadcast: only the first endpoint sends
Broadcast_First(kind) == {Frame(kind, 0, host_list[1].config, 1)}

\* one frame on every endpoint's broadcast address
Broadcast(kind) == {Frame(kind, 0, host_list[e].config, e) : e \in Endpoints}

\* one frame to address t through every endpoint whose subnet contains t
Unicast(kind, sn, t) == {Frame(kind, sn, t, e) : e \in {x \in Endpoints : EpHas(x, t)}}

\* ------------------------------------------------------------------------
\* Firmware files
\* ------------------------------------------------------------------------
\* read_bin_files: one record per file name of the bin directory
BinFile(sn) == [sensor_sn |-> sn, fw_version |-> FileVer,
                sensor_id_arr |-> [k \in 1..HwKeyLen |-> 17]]

\* ------------------------------------------------------------------------
\* State of the program
\* ------------------------------------------------------------------------
VARIABLES
    \* arguments and environment
    command,            \* the command of the command line
    param_list,         \* the configuration files read by cmd_config_run
    forced_update,      \* cmd_update_run(forced_update, ...): TRUE for overwrite
    target_type,        \* cmd_msg['target_type'][0]
    arg_target_list,    \* cmd_msg['target_list'], split by element type: [ips, sns]
    bin_list,           \* the firmware files read from ./bin
    sensors,            \* the sensors on the network: [ip, info] per sensor
    \* locals of cmd_update_run
    pc,                 \* position in the function
    sockets_open,       \* the sockets dict holds open sockets
    target_list,        \* per file: the serial, then the sensor's address
    recv_sn_list,       \* per file: 0, then the discovered serial
    recv_info_list,     \* <<target_idx, info_v2>> in order of discovery
    sensor_updated,
    sensor_skipped,
    bin_idx,            \* index of the for loop over bin_list (1-based)
    info_i,             \* index of the for loop over recv_info_list (1-based)
    ep_i,               \* index of a for loop over sockets.items()
    sock_i,             \* index of a for loop over sock['data']
    tries,
    error,
    success,
    flash_ack,          \* the datagram last stored in flash_ack
    o,                  \* _o, the block index
    \* observable output
    sent,               \* the frames sent so far
    report,             \* <<serial, printed reason>> of every skip message
    flushed,            \* the sockets flush_socket was called on
    \* history
    blk_last,             \* index of the block sent last to the current target, -1 if none
    acked_upto,         \* bits 0..acked_upto-1 were each seen set in a received ack frame
    h_start_acked,      \* serials whose flash_start was answered by an all-zero ack
    h_verified,         \* serials whose new firmware version was read back
    rec_reads,          \* read_info broadcasts sent in the current recovery
    h_blocks_acked,     \* serials for which every bit 0..255 was seen set in ack frames
    \* cmd_run, info
    output_info,        \* the records json.dump writes to the info file
    \* cmd_config_run
    live,               \* per sensor: the writable parameters the sensor has stored
    params,             \* param_list as overwrite_info_v2 has left it
    param_idx,          \* index of the for loop over param_list (1-based)
    config_cnt,
    kept,               \* per file: len(unchanged_params) as printed, -1 if not printed
    cfg_log,            \* the frames cmd_config_run sent to sensors, in order, with their bodies
    pass_no,            \* 1 for the first run of the tool, 2 for the run repeated afterwards
    h_applied,          \* sensors that stored a record of the first run
    \* the flash_block frame under construction (lines 1972-1998)
    image_len,          \* length of the firmware file
    file_pos,           \* position of the file object
    flash_head,
    flash_body,
    block_sends,        \* sendto calls of the current flash_block
    first_sent,         \* flash_head and flash_body of the first sendto of the current block
    last_sent,          \* flash_head and flash_body of its last sendto
    \* encode_info_v2 and decode_info_v2
    rec,                \* a record handed to encode_info_v2
    wire,               \* the 166 bytes it returns
    back,               \* decode_info_v2 of these bytes
    \* get_crc16
    packet,             \* the bytes handed to get_crc16
    crc,                \* crc after crc_i bytes of the for loop
    crc_i,
    \* the options of the command line (lines 2219-2323)
    opts,               \* args.sender, args.sender_ip, args.sender_port
    listening_list      \* the dict of endpoints, in insertion order

inVars == <<command, param_list, forced_update, target_type, arg_target_list, bin_list, sensors>>
discVars == <<target_list, recv_sn_list, recv_info_list>>
resVars == <<sensor_updated, sensor_skipped, report>>
loopVars == <<bin_idx, info_i>>
flashVars == <<success, flash_ack, o, flushed>>
recVars == <<tries, error>>
histVars == <<blk_last, acked_upto, h_start_acked, h_verified, rec_reads, h_blocks_acked>>
cfgVars == <<output_info, live, params, param_idx, config_cnt, kept, cfg_log, pass_no, h_applied>>
blockVars == <<image_len, file_pos, flash_head, flash_body, block_sends, first_sent, last_sent>>
codecVars == <<rec, wire, back>>
fnVars == <<packet, crc, crc_i, opts, listening_list>>
auxVars == <<cfgVars, blockVars, codecVars, fnVars>>

vars == <<inVars, pc, sockets_open, discVars, resVars, loopVars, ep_i, sock_i,
          recVars, flashVars, sent, histVars, auxVars>>

\* an entry of target_list: a serial (int) or an address (str)
TargetSn(n) == [kind |-> "SN", sn |-> n, ip |-> <<0, 0, 0, 0>>]
TargetIp(a) == [kind |-> "IP", sn |-> 0, ip |-> a]
\* parse_arg_list with 'a' or 'all': type_list ['ALL'], data_list [0]
TargetAll == [kind |-> "ALL", sn |-> 0, ip |-> <<0, 0, 0, 0>>]

\* ------------------------------------------------------------------------
\* Parameter records (encode_info_v2, decode_info_v2, overwrite_info_v2,
\* print_diff_info_v2)
\* ------------------------------------------------------------------------
\* the empty string of a parameter file: -1 where a number is expected, the
\* empty sequence where a list is expected
Blank == -1
BlankList == <<>>

\* len of the info-v2 body, bytearray(166)
InfoBodyLen == 166

\* the layout of the parameters in the info-v2 body: offset of the first
\* byte, bytes per element, number of elements (0 for a plain number)
Layout ==
    {[f |-> "capture_mode", at |-> 71, w |-> 1, n |-> 0],
     [f |-> "capture_row", at |-> 72, w |-> 1, n |-> 0],
     [f |-> "capture_shutter", at |-> 73, w |-> 2, n |-> 5],
     [f |-> "capture_limit", at |-> 83, w |-> 2, n |-> 2],
     [f |-> "capture_period_us", at |-> 87, w |-> 4, n |-> 0],
     [f |-> "capture_seq", at |-> 91, w |-> 1, n |-> 0],
     [f |-> "data_output", at |-> 92, w |-> 1, n |-> 0],
     [f |-> "data_baud", at |-> 93, w |-> 4, n |-> 0],
     [f |-> "data_sensor_ip", at |-> 97, w |-> 1, n |-> 4],
     [f |-> "data_dest_ip", at |-> 101, w |-> 1, n |-> 4],
     [f |-> "data_subnet", at |-> 105, w |-> 1, n |-> 4],
     [f |-> "data_gateway", at |-> 109, w |-> 1, n |-> 4],
     [f |-> "data_port", at |-> 113, w |-> 2, n |-> 0],
     [f |-> "data_mac_addr", at |-> 115, w |-> 1, n |-> 6],
     [f |-> "sync", at |-> 121, w |-> 1, n |-> 0],
     [f |-> "sync_trig_delay_us", at |-> 122, w |-> 4, n |-> 0],
     [f |-> "sync_ill_delay_us", at |-> 126, w |-> 2, n |-> 15],
     [f |-> "sync_trig_trim_us", at |-> 156, w |-> 1, n |-> 0],
     [f |-> "sync_ill_trim_us", at |-> 157, w |-> 1, n |-> 0],
     [f |-> "sync_output_delay_us", at |-> 158, w |-> 2, n |-> 0],
     [f |-> "arb", at |-> 160, w |-> 1, n |-> 0],
     [f |-> "arb_timeout", at |-> 161, w |-> 4, n |-> 0]}

\* the parameters a sensor can be told to change
WritableFields == {l.f : l \in Layout}
ListFields == {l.f : l \in {x \in Layout : x.n > 0}}
LayoutOf(f) == CHOOSE l \in Layout : l.f = f

\* the read-only part of decode_info_v2's result: byte strings by offset and
\* length, and sensor_calib_id
IdentityBytes ==
    {[f |-> "sensor_hw_id", at |-> 2, n |-> 30],
     [f |-> "sensor_fw_ver", at |-> 32, n |-> 3],
     [f |-> "sensor_fw_date", at |-> 35, n |-> 12],
     [f |-> "sensor_fw_time", at |-> 47, n |-> 9],
     [f |-> "sensor_fw0_ver", at |-> 60, n |-> 3],
     [f |-> "sensor_fw1_ver", at |-> 63, n |-> 3],
     [f |-> "sensor_fw2_ver", at |-> 66, n |-> 3]}

InfoFields ==
    {"sensor_sn", "sensor_calib_id", "sensor_model_id", "sensor_boot_ctrl", "lock"}
    \cup {l.f : l \in IdentityBytes} \cup WritableFields

\* mutation of ByteOf: the bytes above the lowest are dropped
ByteOf_Low(v, b) == IF b = 0 THEN v % 256 ELSE 0

\* byte b (0 is the lowest) of number v: (v >> 8*b) & 0xFF
ByteOf(v, b) == (v \div Pow2(8 * b)) % 256

\* the number in the w bytes of src from offset at, lowest byte first
LeAt(src, at, w) ==
    LET RECURSIVE Sum(_)
        Sum(b) == IF b = w THEN 0 ELSE src[at + b] * Pow2(8 * b) + Sum(b + 1)
    IN Sum(0)

\* encode_info_v2: the 166 bytes, indexed by offset. Bytes 0..1 hold the
\* serial, range(2, 70) is set to 0, offsets 70 and 165 keep the 0 of
\* bytearray(166); a one-byte parameter is stored as it is
encode_info_v2(src) ==
    [q \in 0..(InfoBodyLen - 1) |->
        IF q = 0 THEN src.sensor_sn % 256
        ELSE IF q = 1 THEN src.sensor_sn \div 256
        ELSE IF \E l \in Layout : q \in l.at..(l.at + l.w * (IF l.n = 0 THEN 1 ELSE l.n) - 1)
        THEN LET l == CHOOSE x \in Layout : q \in x.at..(x.at + x.w * (IF x.n = 0 THEN 1 ELSE x.n) - 1)
                 e == (q - l.at) \div l.w
                 v == IF l.n = 0 THEN src[l.f] ELSE src[l.f][e + 1]
             IN IF l.w = 1 THEN v ELSE ByteOf(v, (q - l.at) % l.w)
        ELSE 0]

\* decode_info_v2
decode_info_v2(src) ==
    [f \in InfoFields |->
        IF f = "sensor_sn" THEN LeAt(src, 0, 2)
        ELSE IF f = "sensor_calib_id" THEN LeAt(src, 56, 4)
        ELSE IF f = "sensor_model_id" THEN src[69]
        ELSE IF f = "sensor_boot_ctrl" THEN src[70]
        ELSE IF f = "lock" THEN src[165]
        ELSE IF f \in WritableFields
        THEN LET l == LayoutOf(f)
             IN IF l.n = 0 THEN LeAt(src, l.at, l.w)
                ELSE [e \in 1..l.n |-> LeAt(src, l.at + l.w * (e - 1), l.w)]
        ELSE LET l == CHOOSE x \in IdentityBytes : x.f = f
             IN [e \in 1..l.n |-> src[l.at + e - 1]]]

\* a value is the empty string
IsBlank(f, v) == IF f \in ListFields THEN v = BlankList ELSE v = Blank

\* overwrite_info_v2(src, dst): dst after the call, and the keys it returns
overwrite_info_v2(src, dst) ==
    [f \in DOMAIN dst |->
        IF f \in DOMAIN src /\ IsBlank(f, dst[f]) THEN src[f] ELSE dst[f]]

overwritten_keys(src, dst) == {f \in DOMAIN src \cap DOMAIN dst : IsBlank(f, dst[f])}

\* print_diff_info_v2(pri, post): the number of parameters that differ
print_diff_info_v2(pri, post) == Cardinality({f \in WritableFields : pri[f] # post[f]})

\* encode_info_v2 raises TypeError on a record in which a number is ''
Encodable(r) ==
    \A f \in WritableFields :
        IF f \in ListFields
        THEN r[f] # BlankList /\ \A e \in 1..Len(r[f]) : r[f][e] # Blank
        ELSE r[f] # Blank

\* the parameters of a sensor as shipped
LiveDefault ==
    [capture_mode |-> 1, capture_row |-> 4, capture_shutter |-> <<400, 80, 16, 0, 8000>>,
     capture_limit |-> <<200, 200>>, capture_period_us |-> 50000, capture_seq |-> 0,
     data_output |-> 1, data_baud |-> 115200,
     data_sensor_ip |-> <<192, 168, 5, 200>>, data_dest_ip |-> <<192, 168, 5, 2>>,
     data_subnet |-> <<255, 255, 255, 0>>, data_gateway |-> <<192, 168, 5, 1>>,
     data_port |-> 7256, data_mac_addr |-> <<2, 0, 0, 0, 1, 200>>,
     sync |-> 0, sync_trig_delay_us |-> 0,
     sync_ill_delay_us |-> [e \in 1..15 |-> 0],
     sync_trig_trim_us |-> 0, sync_ill_trim_us |-> 0, sync_output_delay_us |-> 300,
     arb |-> 0, arb_timeout |-> 70000]

\* the values of the variables of the other commands while a command runs
CfgLoopIdle ==
    /\ output_info = <<>>
    /\ params = <<>>
    /\ param_idx = 0
    /\ config_cnt = 0
    /\ kept = <<>>
    /\ cfg_log = <<>>
    /\ pass_no = 1
    /\ h_applied = {}

CfgIdle == CfgLoopIdle /\ live = <<>>

BlockIdle ==
    /\ image_len = 0
    /\ file_pos = 0
    /\ flash_head = <<>>
    /\ flash_body = <<>>
    /\ block_sends = 0
    /\ first_sent = [head |-> <<>>, body |-> <<>>]
    /\ last_sent = [head |-> <<>>, body |-> <<>>]

CodecIdle ==
    /\ rec = <<>>
    /\ wire = <<>>
    /\ back = <<>>

FnIdle ==
    /\ packet = <<>>
    /\ crc = 0
    /\ crc_i = 0
    /\ opts = <<>>
    /\ listening_list = <<>>

AuxIdle == CfgIdle /\ BlockIdle /\ CodecIdle /\ FnIdle

\* ------------------------------------------------------------------------
\* Bounds of the modelled runs
\* ------------------------------------------------------------------------
\* the history counters stop counting here
CountCap == 4
\* the serials of the firmware files, in directory order
FileSerials == <<1, 2>>
\* two files of one sensor
DupSerials == <<1, 1>>

\* bootloader versions a sensor reports: 1.5.4, 1.5.3, 1.4.104
BootVers == {<<4, 5, 1>>, <<3, 5, 1>>, <<104, 4, 1>>}

\* what a sensor may report about itself
SensorInfos(sn) ==
    {InfoRec(sn, hw, fw, fw1, boot, lk) :
        hw \in {HwA, HwB, HwC}, fw \in BootVers, fw1 \in {OldVer, FileVer},
        boot \in {0, 1}, lk \in {0, 1}}

NoSensor == [present |-> FALSE, ip |-> <<0, 0, 0, 0>>, info |-> NoInfo]
Sensor(ip, i) == [present |-> TRUE, ip |-> ip, info |-> i]

\* a sensor that passes every eligibility check, and single deviations from it
Good(sn) == InfoRec(sn, HwA, <<4, 5, 1>>, OldVer, 0, 0)
Locked(sn) == [Good(sn) EXCEPT !.lock = 1]
WrongHw(sn) == [Good(sn) EXCEPT !.sensor_hw_id = HwB]
NotSafe(sn) == [Good(sn) EXCEPT !.sensor_boot_ctrl = 1]

\* the station that is not a sensor of the run
Stray == Sensor(IpF, NoInfo)

AllTargets == [type |-> "ALL", ips |-> {}, sns |-> {0}]
IpTargets == [type |-> "IP", ips |-> {IpA}, sns |-> {}]
SnTargets == [type |-> "SN", ips |-> {}, sns |-> {2}]

Scenario(f, t, w) == [forced |-> f, target |-> t, world |-> w, files |-> FileSerials]

\* the modelled runs:
\*  - one sensor with every combination of reported fields, update and overwrite
\*  - two sensors, the first one eligible or not, the second one eligible or locked
\*  - target lists that name one of two eligible sensors, by address or by serial
\*  - a sensor outside of every endpoint's subnet
\*  - a third station on the first endpoint's subnet
\*  - two firmware files with the same serial
Scenarios ==
    {Scenario(f, AllTargets, <<Sensor(IpA, i), NoSensor, NoSensor>>) :
        f \in BOOLEAN, i \in SensorInfos(1)}
    \cup {Scenario(FALSE, AllTargets, <<Sensor(IpA, i1), Sensor(IpB, i2), NoSensor>>) :
        i1 \in {Good(1), Locked(1), WrongHw(1), NotSafe(1)}, i2 \in {Good(2), Locked(2)}}
    \cup {Scenario(f, t, <<Sensor(IpA, Good(1)), Sensor(IpB, Good(2)), NoSensor>>) :
        f \in BOOLEAN, t \in {IpTargets, SnTargets}}
    \cup {Scenario(FALSE, AllTargets, <<Sensor(IpX, i1), s2, NoSensor>>) :
        i1 \in {Good(1), NotSafe(1)}, s2 \in {NoSensor, Sensor(IpB, Good(2))}}
    \cup {Scenario(FALSE, AllTargets, <<Sensor(IpA, Good(1)), NoSensor, Stray>>)}
    \cup {[Scenario(f, AllTargets, <<Sensor(IpA, Good(1)), NoSensor, NoSensor>>)
                EXCEPT !.files = DupSerials] : f \in BOOLEAN}

\* the locals of cmd_update_run before its first statement
Entered ==
    /\ param_list = <<>>
    /\ pc = "start"
    /\ sockets_open = FALSE
    /\ target_list = <<>>
    /\ recv_sn_list = <<>>
    /\ recv_info_list = <<>>
    /\ sensor_updated = <<>>
    /\ sensor_skipped = <<>>
    /\ report = {}
    /\ bin_idx = 0
    /\ info_i = 0
    /\ ep_i = 0
    /\ sock_i = 0
    /\ tries = 0
    /\ error = FALSE
    /\ success = FALSE
    /\ flash_ack = NoData
    /\ o = 0
    /\ sent = {}
    /\ flushed = {}
    /\ blk_last = -1
    /\ acked_upto = 0
    /\ h_start_acked = {}
    /\ h_verified = {}
    /\ rec_reads = 0
    /\ h_blocks_acked = {}
    /\ AuxIdle

Init ==
    /\ \E s \in Scenarios :
        /\ forced_update = s.forced
        /\ target_type = s.target.type
        /\ arg_target_list = [ips |-> s.target.ips, sns |-> s.target.sns]
        /\ sensors = s.world
        /\ bin_list = [k \in 1..Len(s.files) |-> BinFile(s.files[k])]
        /\ command = IF s.forced THEN "overwrite" ELSE "update"
    /\ Entered

\* ------------------------------------------------------------------------
\* Start of the run (lines 1661-1739)
\* ------------------------------------------------------------------------
\* mutation of duplicates: only serials that occur more than twice
duplicates_Triple(l) ==
    {l[k] : k \in {x \in 1..Len(l) : \E y, z \in 1..Len(l) : y # x /\ z # x /\ y # z /\ l[y] = l[x] /\ l[z] = l[x]}}

\* duplicates = list(set([item for item in target_list if target_list.count(item) > 1]))
duplicates(l) == {l[k] : k \in {x \in 1..Len(l) : \E y \in 1..Len(l) : y # x /\ l[y] = l[x]}}

\* read the files, check duplicates, create the sockets, broadcast cmd_measure
ReadFiles ==
    /\ pc = "start"
    /\ IF Len(bin_list) = 0 \/ duplicates([k \in 1..Len(bin_list) |-> bin_list[k].sensor_sn]) # {}
       THEN /\ pc' = "done"
            /\ UNCHANGED <<sockets_open, discVars, sent>>
       ELSE /\ target_list' = [k \in 1..Len(bin_list) |-> TargetSn(bin_list[k].sensor_sn)]
            /\ recv_sn_list' = [k \in 1..Len(bin_list) |-> 0]
            /\ recv_info_list' = <<>>
            /\ sockets_open' = TRUE
            /\ sent' = sent \cup Broadcast("measure")
            /\ pc' = "safe_boot"
    /\ UNCHANGED <<inVars, auxVars, resVars, loopVars, ep_i, sock_i, recVars, flashVars, histVars>>

\* broadcast cmd_safe_boot on every endpoint
SafeBootAll ==
    /\ pc = "safe_boot"
    /\ sent' = sent \cup Broadcast("safe_boot")
    /\ pc' = "disc_top"
    /\ UNCHANGED <<inVars, auxVars, sockets_open, discVars, resVars, loopVars, ep_i, sock_i,
                   recVars, flashVars, histVars>>

\* ------------------------------------------------------------------------
\* The network: what a non-blocking recvfrom may return
\* ------------------------------------------------------------------------
Present == {k \in 1..Len(sensors) : sensors[k].present}

\* the station that is not a sensor of the run reports serial 3
StrayInfo == Good(3)

\* datagrams that may be waiting in a data socket while sensors are searched
DiscoveryDgrams ==
    {InfoFrame(sensors[k].ip, sensors[k].info) : k \in Present \ {3}}
    \cup (IF 3 \in Present
          THEN {InfoFrame(sensors[3].ip, StrayInfo), StatusFrame(sensors[3].ip)}
          ELSE {})

\* number of data sockets of endpoint e
NumData(e) == Len(host_list[e].port)

\* ------------------------------------------------------------------------
\* Discovery (lines 1741-1793)
\* ------------------------------------------------------------------------
\* is_enter_pressed() returns True: the loop is left
DiscEnter ==
    /\ pc = "disc_top"
    /\ pc' = "found_check"
    /\ UNCHANGED <<inVars, auxVars, sockets_open, discVars, resVars, loopVars, ep_i, sock_i,
                   recVars, flashVars, sent, histVars>>

\* is_enter_pressed() returns False: cmd_read_info goes out on the first
\* endpoint and its first data socket is read
DiscPoll ==
    /\ pc = "disc_top"
    /\ sent' = sent \cup {Frame("read_info", 0, host_list[1].config, 1)}
    /\ ep_i' = 1
    /\ sock_i' = 1
    /\ pc' = "disc_recv"
    /\ UNCHANGED <<inVars, auxVars, sockets_open, discVars, resVars, loopVars,
                   recVars, flashVars, histVars>>

\* info_v2['sensor_sn'] in target_list
SnInTargets(tl, sn) == \E k \in 1..Len(tl) : tl[k].kind = "SN" /\ tl[k].sn = sn

\* the slots an info frame fills (lines 1768-1769)
FillSlots(tl, rl, sn) == {k \in 1..Len(tl) : tl[k].kind = "SN" /\ tl[k].sn = sn /\ rl[k] = 0}

RECURSIVE SetToSeq(_)
\* the elements of a set of indices in increasing order
SetToSeq(S) ==
    IF S = {} THEN <<>>
    ELSE LET m == CHOOSE x \in S : \A y \in S : x <= y
         IN <<m>> \o SetToSeq(S \ {m})

\* recvfrom returns a datagram d on data socket sock_i of endpoint ep_i
DiscRecv(d) ==
    /\ pc = "disc_recv"
    /\ IF IsInfoV2(d)
       THEN /\ IF SnInTargets(target_list, d.info.sensor_sn)
               THEN LET slots == FillSlots(target_list, recv_sn_list, d.info.sensor_sn)
                        order == SetToSeq(slots)
                    IN /\ recv_sn_list' = [k \in 1..Len(recv_sn_list) |->
                                             IF k \in slots THEN d.info.sensor_sn
                                             ELSE recv_sn_list[k]]
                       /\ target_list' = [k \in 1..Len(target_list) |->
                                             IF k \in slots THEN TargetIp(d.src)
                                             ELSE target_list[k]]
                       /\ recv_info_list' = recv_info_list \o
                                             [j \in 1..Len(order) |-> <<order[j], d.info>>]
               ELSE UNCHANGED discVars
            /\ UNCHANGED sent
       ELSE /\ sent' = sent \cup Unicast("pause", 0, d.src)
            /\ UNCHANGED discVars
    /\ UNCHANGED <<inVars, auxVars, pc, sockets_open, resVars, loopVars, ep_i, sock_i,
                   recVars, flashVars, histVars>>

\* recvfrom raises OSError: next data socket, next endpoint (with its
\* cmd_read_info broadcast), or the end of the polling round
DiscNoData ==
    /\ pc = "disc_recv"
    /\ IF sock_i < NumData(ep_i)
       THEN /\ sock_i' = sock_i + 1
            /\ UNCHANGED <<pc, ep_i, sent>>
       ELSE IF ep_i < Len(host_list)
       THEN /\ ep_i' = ep_i + 1
            /\ sock_i' = 1
            /\ sent' = sent \cup {Frame("read_info", 0, host_list[ep_i + 1].config, ep_i + 1)}
            /\ UNCHANGED pc
       ELSE /\ pc' = "disc_check"
            /\ UNCHANGED <<ep_i, sock_i, sent>>
    /\ UNCHANGED <<inVars, auxVars, sockets_open, discVars, resVars, loopVars,
                   recVars, flashVars, histVars>>

\* if 0 not in recv_sn_list: break
AllFound(rl) == \A k \in 1..Len(rl) : rl[k] # 0

DiscCheck ==
    /\ pc = "disc_check"
    /\ pc' = IF AllFound(recv_sn_list) THEN "found_check" ELSE "disc_top"
    /\ UNCHANGED <<inVars, auxVars, sockets_open, discVars, resVars, loopVars, ep_i, sock_i,
                   recVars, flashVars, sent, histVars>>

\* lines 1795-1817: nothing found, close the sockets and return; otherwise
\* broadcast cmd_pause and start the per-sensor loop
FoundCheck ==
    /\ pc = "found_check"
    /\ IF \E k \in 1..Len(recv_sn_list) : recv_sn_list[k] # 0
       THEN /\ sent' = sent \cup Broadcast("pause")
            /\ sensor_updated' = <<>>
            /\ sensor_skipped' = <<>>
            /\ bin_idx' = 1
            /\ pc' = "sensor_loop"
            /\ UNCHANGED sockets_open
       ELSE /\ sockets_open' = FALSE
            /\ pc' = "done"
            /\ UNCHANGED <<sent, sensor_updated, sensor_skipped, bin_idx>>
    /\ UNCHANGED <<inVars, auxVars, discVars, report, info_i, ep_i, sock_i,
                   recVars, flashVars, histVars>>

\* ------------------------------------------------------------------------
\* Per-sensor loop: eligibility (lines 1819-1861)
\* ------------------------------------------------------------------------
item == bin_list[bin_idx]
info == recv_info_list[info_i][2]

\* mutation of target_ip: the address of the first slot, when it was found
target_ip_First == IF recv_sn_list[1] # 0 THEN target_list[1].ip ELSE target_list[bin_idx].ip

\* target_ip = target_list[bin_idx]
target_ip == target_list[bin_idx].ip

\* the first endpoint at or after e whose subnet contains t; Len(host_list)+1
\* when there is none: the for loops over sockets.items() skip the others
NextEp(e, t) ==
    IF \E x \in e..Len(host_list) : EpHas(x, t)
    THEN CHOOSE x \in e..Len(host_list) : EpHas(x, t) /\ \A y \in e..(x - 1) : ~EpHas(y, t)
    ELSE Len(host_list) + 1

\* for bin_idx, item in enumerate(bin_list): if recv_sn_list[bin_idx] != 0
SensorLoop ==
    /\ pc = "sensor_loop"
    /\ IF bin_idx > Len(bin_list)
       THEN /\ pc' = "result"
            /\ UNCHANGED loopVars
       ELSE IF recv_sn_list[bin_idx] = 0
       THEN /\ bin_idx' = bin_idx + 1
            /\ UNCHANGED <<pc, info_i>>
       ELSE /\ info_i' = 1
            /\ pc' = "info_loop"
            /\ UNCHANGED bin_idx
    /\ UNCHANGED <<inVars, auxVars, sockets_open, discVars, resVars, ep_i, sock_i,
                   recVars, flashVars, sent, histVars>>

\* for info in recv_info_list: an entry of another sensor, or the end of the list
InfoLoop ==
    /\ pc = "info_loop"
    /\ IF info_i > Len(recv_info_list)
       THEN /\ bin_idx' = bin_idx + 1
            /\ pc' = "sensor_loop"
            /\ UNCHANGED info_i
       ELSE /\ info.sensor_sn # item.sensor_sn
            /\ info_i' = info_i + 1
            /\ UNCHANGED <<pc, bin_idx>>
    /\ UNCHANGED <<inVars, auxVars, sockets_open, discVars, resVars, ep_i, sock_i,
                   recVars, flashVars, sent, histVars>>

\* mutation of NotInArgs: the argument list is not consulted
NotInArgs_Never(args, ip, sn) == FALSE

\* target_ip not in arg_target_list and recv_sn_list[bin_idx] not in arg_target_list
NotInArgs(args, ip, sn) == ip \notin args.ips /\ sn \notin args.sns

\* mutation of SameFirmware: the versions never compare equal
SameFirmware_Never(i, f) == FALSE

\* list(info[1]['sensor_fw1_ver']) == list(item['fw_version'])
SameFirmware(i, f) == i.sensor_fw1_ver = f.fw_version

\* mutation of HwIdMismatch: the slice is one byte short
HwIdMismatch_Short(i, f) == SubSeq(i.sensor_hw_id, 1, 11) # SubSeq(f.sensor_id_arr, 1, 11)

\* list(target_hw_id) != list(item['sensor_id_arr']), target_hw_id = sensor_hw_id[0:12]
HwIdMismatch(i, f) == SubSeq(i.sensor_hw_id, 1, 12) # f.sensor_id_arr

\* fw_ver = sensor_fw_ver[2] * 10000 + sensor_fw_ver[1] * 100 + sensor_fw_ver[0]
fw_ver(v) == v[3] * 10000 + v[2] * 100 + v[1]

\* if fw_ver < 10504
BootloaderTooOld(i) == fw_ver(i.sensor_fw_ver) < 10504

\* the break statements of the per-sensor body: print the reason, leave the
\* loop over recv_info_list, go on with the next firmware file
Skip(reason) ==
    /\ report' = report \cup {<<item.sensor_sn, reason>>}
    /\ bin_idx' = bin_idx + 1
    /\ pc' = "sensor_loop"

\* the entry of recv_info_list is the sensor of the file: lines 1825-1864
CheckSensor ==
    /\ pc = "info_loop"
    /\ info_i <= Len(recv_info_list)
    /\ info.sensor_sn = item.sensor_sn
    /\ sensor_skipped' = Append(sensor_skipped, item.sensor_sn)
    /\ blk_last' = -1
    /\ acked_upto' = 0
    /\ rec_reads' = 0
    /\ IF target_type # "ALL" /\ NotInArgs(arg_target_list, target_ip, recv_sn_list[bin_idx])
       THEN /\ Skip("not in the argument list")
            /\ UNCHANGED <<sent, recVars, ep_i>>
       ELSE /\ sent' = sent \cup Broadcast("pause")
            /\ IF SameFirmware(info, item) /\ ~forced_update
               THEN /\ Skip("already has the firmware")
                    /\ UNCHANGED <<recVars, ep_i>>
               ELSE IF HwIdMismatch(info, item)
               THEN /\ Skip("sensor_hw_id does not match")
                    /\ UNCHANGED <<recVars, ep_i>>
               ELSE IF BootloaderTooOld(info)
               THEN /\ Skip("FW0 < V1.5.4")
                    /\ UNCHANGED <<recVars, ep_i>>
               ELSE IF info.sensor_boot_ctrl # 0
               THEN /\ tries' = 3
                    /\ error' = TRUE
                    /\ ep_i' = NextEp(1, target_ip)
                    /\ pc' = "rec_ep"
                    /\ UNCHANGED <<report, bin_idx>>
               ELSE /\ pc' = "lock_check"
                    /\ UNCHANGED <<report, bin_idx, recVars, ep_i>>
    /\ UNCHANGED <<inVars, auxVars, sockets_open, discVars, sensor_updated, info_i, sock_i,
                   flashVars, h_start_acked, h_verified, h_blocks_acked>>

\* ------------------------------------------------------------------------
\* Safe-boot recovery (lines 1863-1909)
\* ------------------------------------------------------------------------
\* what the data sockets may hold during recovery: the target reports
\* sensor_boot_ctrl 0 or not, other stations keep talking
RecoveryDgrams ==
    {InfoFrame(target_ip, [info EXCEPT !.sensor_boot_ctrl = b]) : b \in {0, 1}}
    \cup DiscoveryDgrams

\* for ip, sock in sockets.items(): if is_in_subnet(target_ip, ...); after
\* the loop: if error == True: ... break
RecEp ==
    /\ pc = "rec_ep"
    /\ IF ep_i > Len(host_list)
       THEN /\ rec_reads' = 0
            /\ IF error
               THEN /\ Skip("fail to safe-boot")
                    /\ UNCHANGED <<sensor_updated, sensor_skipped>>
               ELSE /\ pc' = "lock_check"
                    /\ UNCHANGED <<resVars, bin_idx>>
       ELSE /\ pc' = "rec_try"
            /\ UNCHANGED <<resVars, bin_idx, rec_reads>>
    /\ UNCHANGED <<inVars, auxVars, sockets_open, discVars, info_i, ep_i, sock_i,
                   recVars, flashVars, sent, blk_last, acked_upto, h_start_acked, h_verified, h_blocks_acked>>

\* while tries > 0: cmd_measure to the sensor, cmd_safe_boot broadcast
RecTry ==
    /\ pc = "rec_try"
    /\ IF tries > 0
       THEN /\ sent' = sent \cup {Frame("measure", 0, target_ip, ep_i),
                                  Frame("safe_boot", 0, host_list[ep_i].config, ep_i)}
            /\ pc' = "rec_poll"
            /\ UNCHANGED ep_i
       ELSE /\ ep_i' = NextEp(ep_i + 1, target_ip)
            /\ pc' = "rec_ep"
            /\ UNCHANGED sent
    /\ UNCHANGED <<inVars, auxVars, sockets_open, discVars, resVars, loopVars, sock_i,
                   recVars, flashVars, histVars>>

\* while error == True: cmd_read_info broadcast, then the data sockets;
\* otherwise tries = tries - 1
RecPoll ==
    /\ pc = "rec_poll"
    /\ IF error
       THEN /\ sent' = sent \cup {Frame("read_info", 0, host_list[ep_i].config, ep_i)}
            /\ rec_reads' = IF rec_reads >= CountCap THEN rec_reads ELSE rec_reads + 1
            /\ sock_i' = 1
            /\ pc' = "rec_recv"
            /\ UNCHANGED tries
       ELSE /\ tries' = tries - 1
            /\ pc' = "rec_try"
            /\ UNCHANGED <<sent, sock_i, rec_reads>>
    /\ UNCHANGED <<inVars, auxVars, sockets_open, discVars, resVars, loopVars, ep_i,
                   error, flashVars, blk_last, acked_upto, h_start_acked, h_verified,
                   h_blocks_acked>>

\* recvfrom returns datagram d (lines 1889-1900)
RecRecv(d) ==
    /\ pc = "rec_recv"
    /\ IF IsInfoV2(d) /\ d.info.sensor_sn = item.sensor_sn
       THEN /\ error' = IF d.info.sensor_boot_ctrl = 0 THEN FALSE ELSE error
            /\ IF d.info.sensor_boot_ctrl # 0 /\ sock_i < NumData(ep_i)
               THEN /\ sock_i' = sock_i + 1
                    /\ UNCHANGED pc
               ELSE /\ pc' = "rec_poll"
                    /\ UNCHANGED sock_i
       ELSE UNCHANGED <<error, sock_i, pc>>
    /\ UNCHANGED <<inVars, auxVars, sockets_open, discVars, resVars, loopVars, ep_i,
                   tries, flashVars, sent, histVars>>

\* recvfrom raises OSError: the next data socket, or back to the while loop
RecNoData ==
    /\ pc = "rec_recv"
    /\ IF sock_i < NumData(ep_i)
       THEN /\ sock_i' = sock_i + 1
            /\ UNCHANGED pc
       ELSE /\ pc' = "rec_poll"
            /\ UNCHANGED sock_i
    /\ UNCHANGED <<inVars, auxVars, sockets_open, discVars, resVars, loopVars, ep_i,
                   recVars, flashVars, sent, histVars>>

\* ------------------------------------------------------------------------
\* Configuration locker (lines 1911-1922)
\* ------------------------------------------------------------------------
\* mutation of IsLocked: the locker is not looked at
IsLocked_Never(i) == FALSE

\* if info[1]['lock'] != 0
IsLocked(i) == i.lock # 0

LockCheck ==
    /\ pc = "lock_check"
    /\ IF IsLocked(info)
       THEN /\ Skip("locked")
            /\ UNCHANGED <<success, ep_i>>
       ELSE /\ success' = FALSE
            /\ pc' = "fs_top"
            /\ UNCHANGED <<report, bin_idx, ep_i>>
    /\ UNCHANGED <<inVars, auxVars, sockets_open, discVars, sensor_updated, sensor_skipped,
                   info_i, sock_i, recVars, flash_ack, o, flushed, sent, histVars>>

\* ------------------------------------------------------------------------
\* flash_start handshake (lines 1924-1966)
\* ------------------------------------------------------------------------
\* the other station on the network, when there is one
StrayIps == {sensors[k].ip : k \in Present \cap {3}}

\* what the data sockets may hold after cmd_flash_start
HandshakeDgrams ==
    {AckFrame(target_ip, ZeroBits), AckFrame(target_ip, PrefixBits(1)), StatusFrame(target_ip)}
    \cup {AckFrame(a, ZeroBits) : a \in StrayIps}

\* while success == False: ...; the statements after the loop lead to the
\* block transfer (the test "if success == False" after the loop cannot hold)
FsTop ==
    /\ pc = "fs_top"
    /\ IF success
       THEN /\ o' = 0
            /\ pc' = "blk_send"
            /\ UNCHANGED ep_i
       ELSE /\ ep_i' = NextEp(1, target_ip)
            /\ pc' = "fs_ep"
            /\ UNCHANGED o
    /\ UNCHANGED <<inVars, auxVars, sockets_open, discVars, resVars, loopVars, sock_i,
                   recVars, success, flash_ack, flushed, sent, histVars>>

\* for ip, sock in sockets.items(): if is_in_subnet(...): send cmd_flash_start
\* with the serial in bytes 8..9, flush_socket(sockData)
FsEp ==
    /\ pc = "fs_ep"
    /\ IF ep_i > Len(host_list)
       THEN /\ pc' = "fs_top"
            /\ UNCHANGED <<sent, flushed, sock_i>>
       ELSE /\ sent' = sent \cup {Frame("flash_start", info.sensor_sn, target_ip, ep_i)}
            /\ flushed' = flushed \cup {sockData}
            /\ sock_i' = 1
            /\ pc' = "fs_recv"
    /\ UNCHANGED <<inVars, auxVars, sockets_open, discVars, resVars, loopVars, ep_i,
                   recVars, success, flash_ack, o, histVars>>

\* recvfrom returns datagram d (lines 1944-1957)
FsRecv(d) ==
    /\ pc = "fs_recv"
    /\ flash_ack' = d
    /\ h_start_acked' = IF d.src = target_ip /\ ObsZeroAck(d)
                        THEN h_start_acked \cup {item.sensor_sn} ELSE h_start_acked
    /\ IF d.src # target_ip
       THEN /\ sent' = sent \cup {Frame("pause", 0, d.src, sockConfig)}
            /\ UNCHANGED <<success, ep_i, pc>>
       ELSE IF IsAck(d) /\ is_all_zero(d)
       THEN /\ success' = TRUE
            /\ ep_i' = NextEp(ep_i + 1, target_ip)
            /\ pc' = "fs_ep"
            /\ UNCHANGED sent
       ELSE UNCHANGED <<sent, success, ep_i, pc>>
    /\ UNCHANGED <<inVars, auxVars, sockets_open, discVars, resVars, loopVars, sock_i,
                   recVars, o, flushed, blk_last, acked_upto, h_verified, rec_reads,
                   h_blocks_acked>>

\* recvfrom raises OSError: the next data socket, or the next endpoint
FsNoData ==
    /\ pc = "fs_recv"
    /\ IF sock_i < NumData(ep_i)
       THEN /\ sock_i' = sock_i + 1
            /\ UNCHANGED <<ep_i, pc>>
       ELSE /\ ep_i' = NextEp(ep_i + 1, target_ip)
            /\ pc' = "fs_ep"
            /\ UNCHANGED sock_i
    /\ UNCHANGED <<inVars, auxVars, sockets_open, discVars, resVars, loopVars,
                   recVars, flashVars, sent, histVars>>

\* ------------------------------------------------------------------------
\* Block transfer (lines 1968-2039)
\* ------------------------------------------------------------------------
\* what the data sockets may hold after block _o was sent: the target's
\* bitmap without or with bit _o, a status frame of the target, and a frame
\* of the other station that looks like an ack with every bit set
BlockDgrams ==
    {AckFrame(target_ip, PrefixBits(o)), AckFrame(target_ip, PrefixBits(o + 1)),
     StatusFrame(target_ip)}
    \cup {AckFrame(a, AllBits) : a \in StrayIps}

\* the indices in lo..hi whose bit is 0 in ack frame d
ZeroBitsIn(d, lo, hi) == {i \in lo..hi : ~ObsBit(d, i)}

MinOf(S) == CHOOSE x \in S : \A y \in S : x <= y

\* the first index at or after n whose bit is 0 in ack frame d, the bitmap's
\* size when there is none
SeenUpto(d, n) ==
    IF n >= 8 * BitmapBytes THEN n
    ELSE LET z1 == ZeroBitsIn(d, n, 8 * (n \div 8) + 7)
             ks == {k \in ((n \div 8) + 2)..BitmapBytes : d.bits[k] # 255}
         IN IF z1 # {} THEN MinOf(z1)
            ELSE IF ks = {} THEN 8 * BitmapBytes
            ELSE MinOf(ZeroBitsIn(d, 8 * (MinOf(ks) - 1), 8 * MinOf(ks) - 1))

\* the position after data socket sock_i of endpoint ep_i in the loops
\* "for ip, sock in sockets.items(): if is_in_subnet(...): for sock_read in sock['data']"
NextSock(after) ==
    IF sock_i < NumData(ep_i)
    THEN /\ sock_i' = sock_i + 1
         /\ UNCHANGED <<ep_i, pc>>
    ELSE LET e == NextEp(ep_i + 1, target_ip)
         IN IF e > Len(host_list)
            THEN /\ pc' = after
                 /\ UNCHANGED <<ep_i, sock_i>>
            ELSE /\ ep_i' = e
                 /\ sock_i' = 1
                 /\ UNCHANGED pc

\* send flash_block _o through every endpoint whose subnet holds the target
\* (lines 1974-1998), then start reading the data sockets
BlkSend ==
    /\ pc = "blk_send"
    /\ sent' = sent \cup Unicast("flash_block", 0, target_ip)
    /\ blk_last' = o
    /\ LET e == NextEp(1, target_ip)
       IN IF e > Len(host_list)
          THEN /\ pc' = "blk_check"
               /\ UNCHANGED <<ep_i, sock_i>>
          ELSE /\ ep_i' = e
               /\ sock_i' = 1
               /\ pc' = "blk_recv"
    /\ UNCHANGED <<inVars, auxVars, sockets_open, discVars, resVars, loopVars,
                   recVars, flashVars, acked_upto, h_start_acked, h_verified, rec_reads,
                   h_blocks_acked>>

\* recvfrom returns datagram d (lines 2008-2020)
BlkRecv(d) ==
    /\ pc = "blk_recv"
    /\ flash_ack' = d
    /\ acked_upto' = IF ObsAck(d) THEN SeenUpto(d, acked_upto) ELSE acked_upto
    /\ h_blocks_acked' = IF ObsAck(d) /\ SeenUpto(d, acked_upto) = NumBlocks
                         THEN h_blocks_acked \cup {item.sensor_sn} ELSE h_blocks_acked
    /\ IF d.src # target_ip
       THEN /\ sent' = sent \cup {Frame("pause", 0, host_list[ep_i].config, ep_i)}
            /\ UNCHANGED <<ep_i, sock_i, pc>>
       ELSE IF IsAck(d)
       THEN /\ NextSock("blk_check")
            /\ UNCHANGED sent
       ELSE UNCHANGED <<sent, ep_i, sock_i, pc>>
    /\ UNCHANGED <<inVars, auxVars, sockets_open, discVars, resVars, loopVars,
                   recVars, success, o, flushed, blk_last, h_start_acked, h_verified, rec_reads>>

\* recvfrom raises OSError
BlkNoData ==
    /\ pc = "blk_recv"
    /\ NextSock("blk_check")
    /\ UNCHANGED <<inVars, auxVars, sockets_open, discVars, resVars, loopVars,
                   recVars, flashVars, sent, histVars>>

\* mutation of AckAdvances: any ack frame lets the host advance
AckAdvances_AnyAck(ack, i) == IsAck(ack) /\ i < 256

\* the test of lines 2023-2028 on what flash_ack holds now
AckAdvances(ack, i) == IsAck(ack) /\ i < 256 /\ AckBit(ack, i) # 0

\* check the ack: send the block again, or go to the next block; after the
\* last block the transfer is over
BlkCheck ==
    /\ pc = "blk_check"
    /\ IF AckAdvances(flash_ack, o)
       THEN /\ o' = o + 1
            /\ pc' = IF o + 1 < NumBlocks THEN "blk_send" ELSE "ff_send"
       ELSE /\ pc' = "blk_send"
            /\ UNCHANGED o
    /\ UNCHANGED <<inVars, auxVars, sockets_open, discVars, resVars, loopVars, ep_i, sock_i,
                   recVars, success, flash_ack, flushed, sent, histVars>>

\* ------------------------------------------------------------------------
\* flash_finish and verification (lines 2041-2104)
\* ------------------------------------------------------------------------
\* what the data sockets may hold after cmd_flash_finish: the target reports
\* the new or the old firmware, or its status; the other station reports the
\* file's version too
FinishDgrams ==
    {InfoFrame(target_ip, [info EXCEPT !.sensor_fw1_ver = v]) : v \in {OldVer, FileVer}}
    \cup {StatusFrame(target_ip)}
    \cup {InfoFrame(a, [StrayInfo EXCEPT !.sensor_fw1_ver = FileVer]) : a \in StrayIps}

\* cmd_flash_finish with the serial in bytes 8..9 to the target
FfSend ==
    /\ pc = "ff_send"
    /\ sent' = sent \cup Unicast("flash_finish", info.sensor_sn, target_ip)
    /\ success' = FALSE
    /\ pc' = "ff_top"
    /\ UNCHANGED <<inVars, auxVars, sockets_open, discVars, resVars, loopVars, ep_i, sock_i,
                   recVars, flash_ack, o, flushed, histVars>>

\* sensor_skipped.pop()
pop(l) == SubSeq(l, 1, Len(l) - 1)

\* while success == False: read the data sockets; after the loop cmd_pause
\* to the sensor and the sensor moves from sensor_skipped to sensor_updated
FfTop ==
    /\ pc = "ff_top"
    /\ IF success
       THEN /\ sent' = sent \cup Unicast("pause", 0, target_ip)
            /\ sensor_skipped' = pop(sensor_skipped)
            /\ sensor_updated' = Append(sensor_updated, item.sensor_sn)
            /\ info_i' = info_i + 1
            /\ pc' = "info_loop"
            /\ UNCHANGED <<ep_i, sock_i>>
       ELSE /\ LET e == NextEp(1, target_ip)
               IN IF e > Len(host_list)
                  THEN UNCHANGED <<ep_i, sock_i, pc>>
                  ELSE /\ ep_i' = e
                       /\ sock_i' = 1
                       /\ pc' = "ff_recv"
            /\ UNCHANGED <<sent, sensor_skipped, sensor_updated, info_i>>
    /\ UNCHANGED <<inVars, auxVars, sockets_open, discVars, report, bin_idx,
                   recVars, flashVars, histVars>>

\* recvfrom returns datagram d (lines 2061-2081)
FfRecv(d) ==
    /\ pc = "ff_recv"
    /\ h_verified' = IF d.src = target_ip /\ ObsInfo(d) /\ d.info.sensor_fw1_ver = item.fw_version
                     THEN h_verified \cup {item.sensor_sn} ELSE h_verified
    /\ IF d.src # target_ip
       THEN /\ sent' = sent \cup {Frame("pause", 0, d.src, ep_i)}
            /\ UNCHANGED <<success, ep_i, sock_i, pc>>
       ELSE IF IsStatus(d)
       THEN /\ sent' = sent \cup {Frame("read_info", 0, target_ip, ep_i)}
            /\ UNCHANGED <<success, ep_i, sock_i, pc>>
       ELSE IF IsInfoV2(d)
       THEN /\ IF SameFirmware(d.info, item)
               THEN /\ success' = TRUE
                    /\ UNCHANGED sent
               ELSE /\ sent' = sent \cup {Frame("flash_finish", info.sensor_sn, target_ip, ep_i)}
                    /\ UNCHANGED success
            /\ NextSock("ff_top")
       ELSE UNCHANGED <<sent, success, ep_i, sock_i, pc>>
    /\ UNCHANGED <<inVars, auxVars, sockets_open, discVars, resVars, loopVars,
                   recVars, flash_ack, o, flushed, blk_last, acked_upto, h_start_acked,
                   rec_reads, h_blocks_acked>>

\* recvfrom raises OSError
FfNoData ==
    /\ pc = "ff_recv"
    /\ NextSock("ff_top")
    /\ UNCHANGED <<inVars, auxVars, sockets_open, discVars, resVars, loopVars,
                   recVars, flashVars, sent, histVars>>

\* ------------------------------------------------------------------------
\* Finalization (lines 2106-2131)
\* ------------------------------------------------------------------------
\* cmd_reboot on every endpoint's broadcast address
RebootAll ==
    /\ pc = "result"
    /\ sent' = sent \cup Broadcast("reboot")
    /\ pc' = "close"
    /\ UNCHANGED <<inVars, auxVars, sockets_open, discVars, resVars, loopVars, ep_i, sock_i,
                   recVars, flashVars, histVars>>

\* mutation of CloseSockets: the function returns with the sockets left open
CloseSockets_Leak ==
    /\ pc = "close"
    /\ pc' = "done"
    /\ UNCHANGED <<inVars, auxVars, sockets_open, discVars, resVars, loopVars, ep_i, sock_i,
                   recVars, flashVars, sent, histVars>>

\* close the data sockets and the config socket of every endpoint, return
CloseSockets ==
    /\ pc = "close"
    /\ sockets_open' = FALSE
    /\ pc' = "done"
    /\ UNCHANGED <<inVars, auxVars, discVars, resVars, loopVars, ep_i, sock_i,
                   recVars, flashVars, sent, histVars>>

\* ------------------------------------------------------------------------
\* The run
\* ------------------------------------------------------------------------
Next ==
    \/ ReadFiles
    \/ SafeBootAll
    \/ DiscEnter
    \/ DiscPoll
    \/ pc = "disc_recv" /\ \E d \in DiscoveryDgrams : DiscRecv(d)
    \/ DiscNoData
    \/ DiscCheck
    \/ FoundCheck
    \/ SensorLoop
    \/ InfoLoop
    \/ CheckSensor
    \/ RecEp
    \/ RecTry
    \/ RecPoll
    \/ pc = "rec_recv" /\ \E d \in RecoveryDgrams : RecRecv(d)
    \/ RecNoData
    \/ LockCheck
    \/ FsTop
    \/ FsEp
    \/ pc = "fs_recv" /\ \E d \in HandshakeDgrams : FsRecv(d)
    \/ FsNoData
    \/ BlkSend
    \/ pc = "blk_recv" /\ \E d \in BlockDgrams : BlkRecv(d)
    \/ BlkNoData
    \/ BlkCheck
    \/ FfSend
    \/ FfTop
    \/ pc = "ff_recv" /\ \E d \in FinishDgrams : FfRecv(d)
    \/ FfNoData
    \/ RebootAll
    \/ CloseSockets

Spec == Init /\ [][Next]_vars

\* ------------------------------------------------------------------------
\* The other commands: main (lines 2326-2337), cmd_sendonly (1239-1331),
\* cmd_run (986-1237) and the start of cmd_config_run (1333-1376)
\* ------------------------------------------------------------------------
\* the info-v2 entries one discovery may append to recv_info_list
InfoCap == 4

\* the commands cmd_sendonly sends without a discovery
SendOnlyCommands == {"pause", "measure", "reboot", "redirect"}

\* command lines of the modelled runs
RunCommands == {"info", "lock", "pause", "reboot"}

\* target arguments of the modelled runs
RunTargets ==
    {<<TargetAll>>,
     <<TargetSn(1)>>, <<TargetSn(1), TargetSn(2)>>, <<TargetSn(0), TargetSn(2)>>,
     <<TargetIp(IpA)>>, <<TargetIp(IpA), TargetIp(IpB)>>, <<TargetIp(IpA), TargetSn(2)>>,
     <<TargetIp(IpX), TargetIp(IpB)>>, <<TargetSn(1), TargetIp(IpA)>>}

\* networks of the modelled runs: two sensors; a sensor with serial 0; a
\* sensor outside of every endpoint's subnet; one serial reported by two
\* senders; a sensor and another station
RunWorlds ==
    {<<Sensor(IpA, Good(1)), Sensor(IpB, Good(2)), NoSensor>>,
     <<Sensor(IpA, Good(0)), Sensor(IpB, Good(2)), NoSensor>>,
     <<Sensor(IpX, Good(1)), Sensor(IpB, Good(2)), NoSensor>>,
     <<Sensor(IpA, Good(1)), Sensor(IpB, Good(1)), NoSensor>>,
     <<Sensor(IpA, Good(1)), NoSensor, Stray>>}

\* a parameter file: sensor_sn and the 22 parameters
Desired(sn, body) == [sensor_sn |-> sn] @@ body

\* parameter files: every parameter blank; one or three parameters set; all
\* parameters set to what the sensor has; two files as cmd_convert_run writes
\* them, with blank elements in the lists it always creates
AllBlank == [f \in WritableFields |-> IF f \in ListFields THEN BlankList ELSE Blank]
SetMode == [AllBlank EXCEPT !.capture_mode = 2]
SetPeriod == [AllBlank EXCEPT !.capture_period_us = 100000, !.data_port = 7258,
                              !.capture_shutter = <<500, 80, 16, 0, 8000>>]
SameAsLive == LiveDefault
CsvBlank == [AllBlank EXCEPT !.capture_shutter = [e \in 1..5 |-> Blank],
                             !.capture_limit = [e \in 1..2 |-> Blank],
                             !.sync_ill_delay_us = [e \in 1..15 |-> Blank]]
CsvOneBlank == [LiveDefault EXCEPT !.capture_mode = 2,
                                   !.capture_shutter = <<400, 80, 16, Blank, 8000>>]

\* the configuration files of the modelled runs
ParamLists ==
    {<<Desired(1, SetMode)>>, <<Desired(1, AllBlank)>>, <<Desired(1, SameAsLive)>>,
     <<Desired(1, CsvBlank)>>,
     <<Desired(1, SetPeriod), Desired(2, SetMode)>>,
     <<Desired(1, AllBlank), Desired(2, SetPeriod)>>,
     <<Desired(1, CsvOneBlank), Desired(2, SetMode)>>,
     <<Desired(0, SetMode), Desired(2, SetMode)>>,
     <<Desired(1, SetMode), Desired(1, SetPeriod)>>,
     <<Desired(2, SetMode), Desired(1, SetMode), Desired(2, SetMode)>>}

\* networks of the modelled config runs: those of the other commands, and
\* a locked sensor next to an unlocked one
ConfigWorlds ==
    RunWorlds \cup {<<Sensor(IpA, [Good(1) EXCEPT !.lock = 2]), Sensor(IpB, Good(2)), NoSensor>>}

RunInit ==
    /\ \/ /\ command \in RunCommands
          /\ target_list \in RunTargets
          /\ param_list = <<>>
          /\ sensors \in RunWorlds
       \/ /\ command = "config"
          /\ target_list = <<>>
          /\ param_list \in ParamLists
          /\ sensors \in ConfigWorlds
    /\ target_type = IF target_list = <<>> THEN "ALL" ELSE target_list[1].kind
    /\ arg_target_list =
            [ips |-> {target_list[k].ip : k \in {x \in 1..Len(target_list) : target_list[x].kind = "IP"}},
             sns |-> {target_list[k].sn : k \in {x \in 1..Len(target_list) : target_list[x].kind = "SN"}}]
    /\ forced_update = FALSE
    /\ bin_list = <<>>
    /\ pc = "main"
    /\ sockets_open = FALSE
    /\ recv_sn_list = <<>>
    /\ recv_info_list = <<>>
    /\ sensor_updated = <<>>
    /\ sensor_skipped = <<>>
    /\ report = {}
    /\ bin_idx = 0
    /\ info_i = 0
    /\ ep_i = 0
    /\ sock_i = 0
    /\ tries = 0
    /\ error = FALSE
    /\ success = FALSE
    /\ flash_ack = NoData
    /\ o = 0
    /\ sent = {}
    /\ flushed = {}
    /\ blk_last = -1
    /\ acked_upto = 0
    /\ h_start_acked = {}
    /\ h_verified = {}
    /\ rec_reads = 0
    /\ h_blocks_acked = {}
    /\ CfgLoopIdle /\ BlockIdle /\ CodecIdle /\ FnIdle
    /\ live = IF command = "config" THEN [k \in 1..Len(sensors) |-> LiveDefault] ELSE <<>>

\* what the run actions leave alone
runRest == <<inVars, auxVars, resVars, loopVars, recVars, flashVars, histVars>>

\* 'SN' not in target_type
NoSnTarget(tl) == \A k \in 1..Len(tl) : tl[k].kind # "SN"

\* main: config goes to cmd_config_run; the other commands go to
\* cmd_sendonly when no target is a serial, which hands the commands it does
\* not send itself over to cmd_run
Main ==
    /\ pc = "main"
    /\ pc' = IF command = "config" THEN "cfg_start"
             ELSE IF NoSnTarget(target_list) /\ command \in SendOnlyCommands THEN "so_open"
             ELSE "run_start"
    /\ UNCHANGED <<runRest, sockets_open, discVars, ep_i, sock_i, sent>>

\* cmd_sendonly creates the sockets (lines 1281-1304)
SoOpen ==
    /\ pc = "so_open"
    /\ sockets_open' = TRUE
    /\ pc' = "so_send"
    /\ UNCHANGED <<runRest, discVars, ep_i, sock_i, sent>>

\* the frames of lines 1310-1322: with ALL one frame on every endpoint's
\* broadcast address; otherwise, for every target and every endpoint whose
\* subnet contains it, one frame on that endpoint's broadcast address
SendOnlyFrames(kind, tt, tl) ==
    IF tt = "ALL" THEN Broadcast(kind)
    ELSE {Frame(kind, 0, host_list[e].config, e) :
            e \in {x \in Endpoints : \E k \in 1..Len(tl) : EpHas(x, tl[k].ip)}}

SoSend ==
    /\ pc = "so_send"
    /\ sent' = sent \cup SendOnlyFrames(command, target_type, target_list)
    /\ pc' = "so_close"
    /\ UNCHANGED <<runRest, sockets_open, discVars, ep_i, sock_i>>

\* the sockets are closed (lines 1326-1331)
SoClose ==
    /\ pc = "so_close"
    /\ sockets_open' = FALSE
    /\ pc' = "done"
    /\ UNCHANGED <<runRest, discVars, ep_i, sock_i, sent>>

\* cmd_run: the lists are set up and the sockets created (lines 1015-1066)
RunStart ==
    /\ pc = "run_start"
    /\ IF target_type = "ALL"
       THEN /\ target_list' = <<>>
            /\ recv_sn_list' = <<>>
       ELSE /\ recv_sn_list' = [k \in 1..Len(target_list) |-> 0]
            /\ UNCHANGED target_list
    /\ recv_info_list' = <<>>
    /\ sockets_open' = TRUE
    /\ pc' = "run_top"
    /\ UNCHANGED <<runRest, ep_i, sock_i, sent>>

\* is_enter_pressed() returns True
RunEnter ==
    /\ pc = "run_top"
    /\ pc' = "run_found"
    /\ UNCHANGED <<runRest, sockets_open, discVars, ep_i, sock_i, sent>>

\* is_enter_pressed() returns False: cmd_read_info goes out on the first
\* endpoint and its first data socket is read
RunPoll ==
    /\ pc = "run_top"
    /\ sent' = sent \cup {Frame("read_info", 0, host_list[1].config, 1)}
    /\ ep_i' = 1
    /\ sock_i' = 1
    /\ pc' = "run_recv"
    /\ UNCHANGED <<runRest, sockets_open, discVars>>

\* info_v2['sensor_sn'] not in recv_sn_list
SnNotSeen(rl, sn) == \A k \in 1..Len(rl) : rl[k] # sn

\* sender[0] in target_list
IpInTargets(tl, a) == \E k \in 1..Len(tl) : tl[k].kind = "IP" /\ tl[k].ip = a

\* the slots an info frame fills by its sender's address (lines 1113-1114)
FillSlotsIp(tl, rl, a) == {k \in 1..Len(tl) : tl[k].kind = "IP" /\ tl[k].ip = a /\ rl[k] = 0}

\* recvfrom returns datagram d on data socket sock_i of endpoint ep_i
\* (lines 1087-1121)
RunRecv(d) ==
    /\ pc = "run_recv"
    /\ IF ~IsInfoV2(d)
       THEN UNCHANGED discVars
       ELSE IF target_type = "ALL"
       THEN IF SnNotSeen(recv_sn_list, d.info.sensor_sn)
            THEN /\ recv_info_list' = Append(recv_info_list, <<Len(recv_sn_list) + 1, d.info>>)
                 /\ recv_sn_list' = Append(recv_sn_list, d.info.sensor_sn)
                 /\ target_list' = Append(target_list, TargetIp(d.src))
            ELSE UNCHANGED discVars
       ELSE IF SnInTargets(target_list, d.info.sensor_sn)
       THEN LET slots == FillSlots(target_list, recv_sn_list, d.info.sensor_sn)
                order == SetToSeq(slots)
            IN /\ recv_sn_list' = [k \in 1..Len(recv_sn_list) |->
                                     IF k \in slots THEN d.info.sensor_sn ELSE recv_sn_list[k]]
               /\ target_list' = [k \in 1..Len(target_list) |->
                                     IF k \in slots THEN TargetIp(d.src) ELSE target_list[k]]
               /\ recv_info_list' = recv_info_list \o
                                     [j \in 1..Len(order) |-> <<order[j], d.info>>]
       ELSE IF IpInTargets(target_list, d.src)
       THEN LET slots == FillSlotsIp(target_list, recv_sn_list, d.src)
                order == SetToSeq(slots)
            IN /\ recv_sn_list' = [k \in 1..Len(recv_sn_list) |->
                                     IF k \in slots THEN d.info.sensor_sn ELSE recv_sn_list[k]]
               /\ recv_info_list' = recv_info_list \o
                                     [j \in 1..Len(order) |-> <<order[j], d.info>>]
               /\ UNCHANGED target_list
       ELSE UNCHANGED discVars
    /\ Len(recv_info_list') <= InfoCap
    /\ UNCHANGED <<runRest, pc, sockets_open, ep_i, sock_i, sent>>

\* recvfrom raises OSError: next data socket, next endpoint (with its
\* cmd_read_info broadcast), or the end of the polling round
RunNoData ==
    /\ pc = "run_recv"
    /\ IF sock_i < NumData(ep_i)
       THEN /\ sock_i' = sock_i + 1
            /\ UNCHANGED <<pc, ep_i, sent>>
       ELSE IF ep_i < Len(host_list)
       THEN /\ ep_i' = ep_i + 1
            /\ sock_i' = 1
            /\ sent' = sent \cup {Frame("read_info", 0, host_list[ep_i + 1].config, ep_i + 1)}
            /\ UNCHANGED pc
       ELSE /\ pc' = "run_check"
            /\ UNCHANGED <<ep_i, sock_i, sent>>
    /\ UNCHANGED <<runRest, sockets_open, discVars>>

\* if target_type[0] != 'ALL' and 0 not in recv_sn_list: break
RunCheck ==
    /\ pc = "run_check"
    /\ pc' = IF target_type # "ALL" /\ AllFound(recv_sn_list) THEN "run_found" ELSE "run_top"
    /\ UNCHANGED <<runRest, sockets_open, discVars, ep_i, sock_i, sent>>

\* if any(recv_sn_list): go on; else close the sockets and return
RunFound ==
    /\ pc = "run_found"
    /\ IF \E k \in 1..Len(recv_sn_list) : recv_sn_list[k] # 0
       THEN /\ pc' = "run_cmd"
            /\ UNCHANGED sockets_open
       ELSE /\ sockets_open' = FALSE
            /\ pc' = "done"
    /\ UNCHANGED <<runRest, discVars, ep_i, sock_i, sent>>

\* mutation of CommandFrames: every endpoint sends
CommandFrames_AllEndpoints(kind, rl, tl) ==
    {Frame(kind, rl[k], tl[k].ip, e) : k \in {x \in 1..Len(rl) : rl[x] # 0}, e \in Endpoints}

\* the frames of lines 1214-1222: for every slot with recv_sn != 0, the
\* command with the serial in bytes 8..9 to target_list[recv_sn_idx], through
\* every endpoint whose subnet contains that address
CommandFrames(kind, rl, tl) ==
    UNION {{Frame(kind, rl[k], tl[k].ip, e) : e \in {x \in Endpoints : EpHas(x, tl[k].ip)}} :
            k \in {x \in 1..Len(rl) : rl[x] # 0}}

\* the info branch (lines 1173-1204): for sn in sorted(recv_sn_list), for
\* every entry of recv_info_list with that serial, the record without the
\* keys of delete_keys is appended to output_info
OutputInfo(rl, il) ==
    LET order == SortSeq(rl, LAMBDA a, b : a < b)
        stored(sn) == LET hit == SelectSeq(il, LAMBDA e : e[2].sensor_sn = sn)
                      IN [j \in 1..Len(hit) |-> [sensor_sn |-> hit[j][2].sensor_sn]]
        RECURSIVE Out(_)
        Out(k) == IF k > Len(order) THEN <<>> ELSE stored(order[k]) \o Out(k + 1)
    IN Out(1)

\* do the command: info writes its file, the others send their frames
RunCommand ==
    /\ pc = "run_cmd"
    /\ IF command = "info"
       THEN /\ output_info' = OutputInfo(recv_sn_list, recv_info_list)
            /\ UNCHANGED sent
       ELSE /\ sent' = sent \cup CommandFrames(command, recv_sn_list, target_list)
            /\ UNCHANGED output_info
    /\ pc' = "run_close"
    /\ UNCHANGED <<inVars, live, params, param_idx, config_cnt, kept, cfg_log, pass_no, h_applied,
                   blockVars, codecVars, fnVars, resVars, loopVars, recVars, flashVars, histVars,
                   sockets_open, discVars, ep_i, sock_i>>

\* the sockets are closed (lines 1231-1236)
RunClose ==
    /\ pc = "run_close"
    /\ sockets_open' = FALSE
    /\ pc' = "done"
    /\ UNCHANGED <<runRest, discVars, ep_i, sock_i, sent>>

\* ------------------------------------------------------------------------
\* cmd_config_run (lines 1333-1541)
\* ------------------------------------------------------------------------
\* what the config actions leave alone
cfgRest == <<inVars, output_info, blockVars, codecVars, fnVars, resVars, loopVars, recVars, flashVars, histVars>>
cfgLoop == <<params, param_idx, config_cnt, kept, cfg_log>>
cfgPass == <<live, pass_no, h_applied>>

\* target_list = [item[1]['sensor_sn'] for item in param_list]
ParamSerials(pl) == [k \in 1..Len(pl) |-> pl[k].sensor_sn]

\* the files are read, duplicates end the command, the lists are set up and
\* the sockets created (lines 1358-1409)
ConfigStart ==
    /\ pc = "cfg_start"
    /\ IF duplicates(ParamSerials(param_list)) # {}
       THEN /\ pc' = "done"
            /\ UNCHANGED <<sockets_open, discVars, cfgLoop>>
       ELSE /\ target_list' = [k \in 1..Len(param_list) |-> TargetSn(param_list[k].sensor_sn)]
            /\ recv_sn_list' = [k \in 1..Len(param_list) |-> 0]
            /\ recv_info_list' = <<>>
            /\ params' = param_list
            /\ param_idx' = 0
            /\ config_cnt' = 0
            /\ kept' = [k \in 1..Len(param_list) |-> -1]
            /\ cfg_log' = <<>>
            /\ sockets_open' = TRUE
            /\ pc' = "cfg_top"
    /\ UNCHANGED <<cfgRest, cfgPass, ep_i, sock_i, sent>>

\* the 166 bytes of the info-v2 frame sensor k sends: its serial and its
\* stored parameters at the offsets of the layout, its hardware id, firmware
\* versions, boot control and lock byte where decode_info_v2 reads them
SensorBody(k) ==
    LET i == sensors[k].info
        e == encode_info_v2([sensor_sn |-> i.sensor_sn] @@ live[k])
    IN [q \in 0..(InfoBodyLen - 1) |->
            IF q \in 2..31 THEN i.sensor_hw_id[q - 1]
            ELSE IF q \in 32..34 THEN i.sensor_fw_ver[q - 31]
            ELSE IF q \in 63..65 THEN i.sensor_fw1_ver[q - 62]
            ELSE IF q = 70 THEN i.sensor_boot_ctrl
            ELSE IF q = 165 THEN i.lock
            ELSE e[q]]

\* a received datagram with its bytes 6..171
BodyFrame(src, len, hdr, body) == [src |-> src, len |-> len, hdr |-> hdr, body |-> body]

\* datagrams that may be waiting in a data socket while cmd_config_run
\* searches the sensors
ConfigDgrams ==
    {BodyFrame(sensors[k].ip, InfoFrameLen, "info_v2_header", SensorBody(k)) : k \in Present \ {3}}
    \cup (IF 3 \in Present
          THEN {BodyFrame(sensors[3].ip, StatusFrameLen, "status_header", SensorBody(3))}
          ELSE {})

\* is_enter_pressed() returns True
CfgEnter ==
    /\ pc = "cfg_top"
    /\ pc' = "cfg_found"
    /\ UNCHANGED <<runRest, sockets_open, discVars, ep_i, sock_i, sent>>

\* is_enter_pressed() returns False: cmd_read_info goes out on the first
\* endpoint and its first data socket is read
CfgPoll ==
    /\ pc = "cfg_top"
    /\ sent' = sent \cup {Frame("read_info", 0, host_list[1].config, 1)}
    /\ ep_i' = 1
    /\ sock_i' = 1
    /\ pc' = "cfg_recv"
    /\ UNCHANGED <<runRest, sockets_open, discVars>>

\* recvfrom returns datagram d (lines 1426-1441)
CfgRecv(d) ==
    /\ pc = "cfg_recv"
    /\ IF IsInfoV2(d)
       THEN LET info_v2 == decode_info_v2(d.body)
            IN IF SnInTargets(target_list, info_v2.sensor_sn)
               THEN LET slots == FillSlots(target_list, recv_sn_list, info_v2.sensor_sn)
                        order == SetToSeq(slots)
                    IN /\ recv_sn_list' = [k \in 1..Len(recv_sn_list) |->
                                             IF k \in slots THEN info_v2.sensor_sn ELSE recv_sn_list[k]]
                       /\ target_list' = [k \in 1..Len(target_list) |->
                                             IF k \in slots THEN TargetIp(d.src) ELSE target_list[k]]
                       /\ recv_info_list' = recv_info_list \o
                                             [j \in 1..Len(order) |-> <<order[j], info_v2>>]
               ELSE UNCHANGED discVars
       ELSE UNCHANGED discVars
    /\ Len(recv_info_list') <= InfoCap
    /\ UNCHANGED <<runRest, pc, sockets_open, ep_i, sock_i, sent>>

\* recvfrom raises OSError: next data socket, next endpoint (with its
\* cmd_read_info broadcast), or the end of the polling round
CfgNoData ==
    /\ pc = "cfg_recv"
    /\ IF sock_i < NumData(ep_i)
       THEN /\ sock_i' = sock_i + 1
            /\ UNCHANGED <<pc, ep_i, sent>>
       ELSE IF ep_i < Len(host_list)
       THEN /\ ep_i' = ep_i + 1
            /\ sock_i' = 1
            /\ sent' = sent \cup {Frame("read_info", 0, host_list[ep_i + 1].config, ep_i + 1)}
            /\ UNCHANGED pc
       ELSE /\ pc' = "cfg_check"
            /\ UNCHANGED <<ep_i, sock_i, sent>>
    /\ UNCHANGED <<runRest, sockets_open, discVars>>

\* if 0 not in recv_sn_list: break
CfgCheck ==
    /\ pc = "cfg_check"
    /\ pc' = IF AllFound(recv_sn_list) THEN "cfg_found" ELSE "cfg_top"
    /\ UNCHANGED <<runRest, sockets_open, discVars, ep_i, sock_i, sent>>

\* if any(recv_sn_list): go on with config_cnt = 0; else close the sockets
\* and return (lines 1459-1474)
CfgFound ==
    /\ pc = "cfg_found"
    /\ IF \E k \in 1..Len(recv_sn_list) : recv_sn_list[k] # 0
       THEN /\ pc' = "cfg_param"
            /\ param_idx' = 1
            /\ config_cnt' = 0
            /\ UNCHANGED sockets_open
       ELSE /\ sockets_open' = FALSE
            /\ pc' = "done"
            /\ UNCHANGED <<param_idx, config_cnt>>
    /\ UNCHANGED <<cfgRest, cfgPass, params, kept, cfg_log, discVars, ep_i, sock_i, sent>>

\* mutation of LiveLocked: no record counts as locked
LiveLocked_Never(i) == i.lock < 0

\* if item[1]['lock'] != 0
LiveLocked(i) == i.lock # 0

\* a frame cmd_config_run sends to a sensor, with the 166 bytes it carries
NoBody == [q \in 0..(InfoBodyLen - 1) |-> 0]
CfgFrame(kind, dst, via, body) == [kind |-> kind, dst |-> dst, via |-> via, body |-> body]

\* lines 1491-1500: on every endpoint whose subnet contains the target, the
\* info-v2 frame and then cmd_store
ConfigSends(t, body) ==
    LET eps == SetToSeq({e \in Endpoints : is_in_subnet(t, host_list[e].ip, host_list[e].subnet)})
        RECURSIVE Out(_)
        Out(j) == IF j > Len(eps) THEN <<>>
                  ELSE <<CfgFrame("info_v2", t, eps[j], body), CfgFrame("store", t, eps[j], NoBody)>>
                       \o Out(j + 1)
    IN Out(1)

\* lines 1480-1503 for one entry of recv_info_list: st holds param[1], the
\* frames sent, config_cnt, len(unchanged_params) and whether encode_info_v2
\* has raised
Reconcile(st, item_info, t) ==
    IF st.raised \/ LiveLocked(item_info) THEN st
    ELSE LET merged == overwrite_info_v2(item_info, st.param)
             unchanged_params == overwritten_keys(item_info, st.param)
             st1 == [st EXCEPT !.param = merged, !.kept = Cardinality(unchanged_params)]
         IN IF print_diff_info_v2(item_info, merged) > 0
            THEN IF Encodable(merged)
                 THEN [st1 EXCEPT !.log = st.log \o ConfigSends(t, encode_info_v2(merged)),
                                  !.cnt = st.cnt + 1]
                 ELSE [st1 EXCEPT !.raised = TRUE]
            ELSE st1

\* one pass of the loop over param_list (lines 1478-1503)
CfgParam ==
    /\ pc = "cfg_param"
    /\ param_idx <= Len(params)
    /\ LET entries == SelectSeq(recv_info_list, LAMBDA it : it[1] = param_idx)
           st0 == [param |-> params[param_idx], log |-> <<>>, cnt |-> config_cnt,
                   kept |-> kept[param_idx], raised |-> FALSE]
           RECURSIVE Run(_, _)
           Run(st, j) == IF j > Len(entries) THEN st
                         ELSE Run(Reconcile(st, entries[j][2], target_list[param_idx].ip), j + 1)
           st == IF recv_sn_list[param_idx] # 0 THEN Run(st0, 1) ELSE st0
       IN /\ params' = [params EXCEPT ![param_idx] = st.param]
          /\ kept' = [kept EXCEPT ![param_idx] = st.kept]
          /\ config_cnt' = st.cnt
          /\ cfg_log' = cfg_log \o st.log
          /\ sent' = sent \cup {Frame(st.log[j].kind, 0, st.log[j].dst, st.log[j].via) : j \in 1..Len(st.log)}
          /\ IF st.raised
             THEN pc' = "raised" /\ UNCHANGED param_idx
             ELSE pc' = "cfg_param" /\ param_idx' = param_idx + 1
    /\ UNCHANGED <<cfgRest, cfgPass, sockets_open, discVars, ep_i, sock_i>>

\* lines 1522-1527: cmd_reboot to every found sensor, on every endpoint whose
\* subnet contains its address
RebootSends(rl, tl) ==
    LET RECURSIVE Out(_)
        Out(k) ==
            IF k > Len(rl) THEN <<>>
            ELSE (IF rl[k] # 0
                  THEN LET eps == SetToSeq({e \in Endpoints :
                                    is_in_subnet(tl[k].ip, host_list[e].ip, host_list[e].subnet)})
                       IN [j \in 1..Len(eps) |-> CfgFrame("reboot", tl[k].ip, eps[j], NoBody)]
                  ELSE <<>>) \o Out(k + 1)
    IN Out(1)

\* after the loop (lines 1505-1527): with config_cnt == 0 the command is
\* done, otherwise the found sensors are rebooted
CfgAfter ==
    /\ pc = "cfg_param"
    /\ param_idx > Len(params)
    /\ IF config_cnt = 0
       THEN UNCHANGED <<cfg_log, sent>>
       ELSE LET log == RebootSends(recv_sn_list, target_list)
            IN /\ cfg_log' = cfg_log \o log
               /\ sent' = sent \cup {Frame("reboot", 0, log[j].dst, log[j].via) : j \in 1..Len(log)}
    /\ pc' = "cfg_close"
    /\ UNCHANGED <<cfgRest, cfgPass, params, param_idx, config_cnt, kept, sockets_open, discVars, ep_i, sock_i>>

\* the sockets are closed (lines 1508-1512, 1536-1541)
CfgClose ==
    /\ pc = "cfg_close"
    /\ sockets_open' = FALSE
    /\ pc' = "done"
    /\ UNCHANGED <<runRest, discVars, ep_i, sock_i, sent>>

\* the destinations that got an info-v2 frame and cmd_store after it
Stored(log) ==
    {log[i].dst : i \in {x \in 1..Len(log) :
        log[x].kind = "info_v2" /\ \E y \in (x + 1)..Len(log) : log[y].kind = "store" /\ log[y].dst = log[x].dst}}

\* the body of the last info-v2 frame sent to address a
LastBody(log, a) ==
    log[CHOOSE x \in 1..Len(log) :
            /\ log[x].kind = "info_v2" /\ log[x].dst = a
            /\ \A y \in (x + 1)..Len(log) : ~(log[y].kind = "info_v2" /\ log[y].dst = a)].body

\* the sensors store the parameters of the info-v2 frame they received
\* before cmd_store, and the tool is run again with the same files
SecondPass ==
    /\ pc = "done"
    /\ command = "config"
    /\ pass_no = 1
    /\ Stored(cfg_log) # {}
    /\ pass_no' = 2
    /\ live' = [k \in 1..Len(sensors) |->
                    IF sensors[k].present /\ sensors[k].ip \in Stored(cfg_log)
                    THEN [f \in WritableFields |-> decode_info_v2(LastBody(cfg_log, sensors[k].ip))[f]]
                    ELSE live[k]]
    /\ h_applied' = {[ip |-> target_list[k].ip, merged |-> params[k]] :
                        k \in {x \in 1..Len(params) : target_list[x].ip \in Stored(cfg_log)}}
    /\ target_list' = <<>>
    /\ recv_sn_list' = <<>>
    /\ recv_info_list' = <<>>
    /\ params' = <<>>
    /\ param_idx' = 0
    /\ config_cnt' = 0
    /\ kept' = <<>>
    /\ cfg_log' = <<>>
    /\ sent' = {}
    /\ pc' = "cfg_start"
    /\ UNCHANGED <<cfgRest, sockets_open, ep_i, sock_i>>

RunNext ==
    \/ Main
    \/ SoOpen
    \/ SoSend
    \/ SoClose
    \/ RunStart
    \/ RunEnter
    \/ RunPoll
    \/ pc = "run_recv" /\ \E d \in DiscoveryDgrams : RunRecv(d)
    \/ RunNoData
    \/ RunCheck
    \/ RunFound
    \/ RunCommand
    \/ RunClose
    \/ ConfigStart
    \/ CfgEnter
    \/ CfgPoll
    \/ pc = "cfg_recv" /\ \E d \in ConfigDgrams : CfgRecv(d)
    \/ CfgNoData
    \/ CfgCheck
    \/ CfgFound
    \/ CfgParam
    \/ CfgAfter
    \/ CfgClose
    \/ SecondPass

RunSpec == RunInit /\ [][RunNext]_vars

\* ------------------------------------------------------------------------
\* Properties
\* ------------------------------------------------------------------------
\* a frame of the given kind was sent to address a
SentTo(kind, a) == \E f \in sent : f.kind = kind /\ f.dst = a

FlashKinds == {"flash_start", "flash_block", "flash_finish"}

\* a flash_start, flash-block or flash_finish frame was sent to address a
FlashedTo(a) == \E f \in sent : f.kind \in FlashKinds /\ f.dst = a

InSeq(x, l) == \E k \in 1..Len(l) : l[k] = x

\* the firmware files whose sensor was discovered
Found == {k \in 1..Len(target_list) : target_list[k].kind = "IP"}

\* the info record discovery stored for file k
InfoOf(k) == (CHOOSE e \in {recv_info_list[j] : j \in 1..Len(recv_info_list)} : e[1] = k)[2]

\* C1: flash-blocks go out in index order 0,1,...,255 (a block is followed by
\* itself or by its successor), and block i+1 is never sent before the host
\* has received an ack frame in which bit i is 1.
C1_BlocksInOrder ==
    /\ [](blk_last \in -1..255 /\ blk_last <= acked_upto)
    /\ [][blk_last' # blk_last =>
            blk_last' = blk_last + 1 \/ (blk_last' = -1 /\ pc = "info_loop")]_vars

C1_Witness == pc = "blk_recv" /\ blk_last = 255 /\ acked_upto = 255

\* C2: when the frame the host checks after sending block i is an ack frame,
\* bit (i mod 8) of bitmap byte (i div 8) decides: 0 sends block i again, 1
\* goes on to block i+1, or to flash_finish when i = 255; no index is skipped
\* and none above 255 is sent.
C2_AckBitDecides ==
    /\ [][pc = "blk_check" /\ ObsAck(flash_ack) =>
            IF ObsBit(flash_ack, o)
            THEN /\ o' = o + 1
                 /\ pc' = IF o = 255 THEN "ff_send" ELSE "blk_send"
            ELSE o' = o /\ pc' = "blk_send"]_vars
    /\ [][pc = "blk_send" => blk_last' = o /\ o <= 255 /\ o \in {blk_last, blk_last + 1}]_vars

C2_Witness == pc = "blk_check" /\ o = 255 /\ ObsAck(flash_ack) /\ ObsBit(flash_ack, o)

\* what the eligibility checks let through
PassedChecks(k) ==
    /\ target_type = "ALL" \/ target_list[k].ip \in arg_target_list.ips
                          \/ recv_sn_list[k] \in arg_target_list.sns
    /\ forced_update \/ InfoOf(k).sensor_fw1_ver # bin_list[k].fw_version
    /\ \A j \in 1..12 : InfoOf(k).sensor_hw_id[j] = bin_list[k].sensor_id_arr[j]
    /\ InfoOf(k).sensor_fw_ver[3] * 10000 + InfoOf(k).sensor_fw_ver[2] * 100
            + InfoOf(k).sensor_fw_ver[1] >= 10504
    /\ InfoOf(k).lock = 0

Processed(k) == bin_idx > k

\* the sensor of file k is in the skipped list and a reason was printed
ReportedSkipped(k) ==
    /\ InSeq(bin_list[k].sensor_sn, sensor_skipped)
    /\ \E r \in report : r[1] = bin_list[k].sensor_sn

\* the per-sensor loop ends only after it has visited every firmware file
VisitsAllFiles == pc \in {"result", "close"} => bin_idx = Len(bin_list) + 1

\* the checks other than the firmware version let the sensor of file k through
PassedOtherChecks(k) ==
    /\ target_type = "ALL" \/ target_list[k].ip \in arg_target_list.ips
                          \/ recv_sn_list[k] \in arg_target_list.sns
    /\ \A j \in 1..12 : InfoOf(k).sensor_hw_id[j] = bin_list[k].sensor_id_arr[j]
    /\ InfoOf(k).sensor_fw_ver[3] * 10000 + InfoOf(k).sensor_fw_ver[2] * 100
            + InfoOf(k).sensor_fw_ver[1] >= 10504
    /\ InfoOf(k).sensor_boot_ctrl = 0
    /\ InfoOf(k).lock = 0

\* C4: with live sensor_fw1_ver equal to the file's fw_version, update sends
\* no flash_start, flash-block or flash_finish and skips the sensor;
\* overwrite, when the other checks pass, runs the whole transfer:
\* flash_start, blocks up to 255, flash_finish.
C4_SameVersion ==
    /\ pc \in {"ff_send", "ff_top", "ff_recv"} => blk_last = 255
    /\ \A k \in Found :
        InfoOf(k).sensor_fw1_ver = bin_list[k].fw_version =>
            IF forced_update
            THEN Processed(k) /\ PassedOtherChecks(k) =>
                    /\ InSeq(bin_list[k].sensor_sn, sensor_updated)
                    /\ \A kind \in FlashKinds : SentTo(kind, target_list[k].ip)
                    /\ bin_list[k].sensor_sn \in h_blocks_acked
            ELSE /\ ~FlashedTo(target_list[k].ip)
                 /\ Processed(k) => ReportedSkipped(k)

C4_Witness ==
    /\ pc = "done" /\ forced_update /\ sensor_updated = <<1>>
    /\ InfoOf(1).sensor_fw1_ver = bin_list[1].fw_version

\* the first 12 bytes of the live hw_id differ from the file's sensor_id
HwDiffers(k) == \E j \in 1..12 : InfoOf(k).sensor_hw_id[j] # bin_list[k].sensor_id_arr[j]

\* C5: a sensor whose first 12 hw_id bytes differ from the file's sensor_id
\* gets no flash_start, flash-block or flash_finish in update and in
\* overwrite mode, is reported as skipped, and the loop goes on.
C5_HwIdMismatch ==
    /\ VisitsAllFiles
    /\ \A k \in Found :
        HwDiffers(k) =>
            /\ ~FlashedTo(target_list[k].ip)
            /\ Processed(k) => ReportedSkipped(k)

C5_Witness ==
    /\ pc = "done" /\ sensor_skipped = <<1>> /\ sensor_updated = <<2>>
    /\ HwDiffers(1)

C7_NotInArgs ==
    target_type # "ALL" =>
        \A k \in Found :
            target_list[k].ip \notin arg_target_list.ips /\ recv_sn_list[k] \notin arg_target_list.sns
                => ~FlashedTo(target_list[k].ip) /\ (Processed(k) => ReportedSkipped(k))

C7_Witness ==
    /\ pc = "done" /\ target_type = "IP"
    /\ sensor_updated = <<1>> /\ sensor_skipped = <<2>>

\* version (major, minor, patch) of triple v = (patch, minor, major) is below a.b.c
VersionBelow(v, a, b, c) ==
    \/ v[3] < a
    \/ v[3] = a /\ v[2] < b
    \/ v[3] = a /\ v[2] = b /\ v[1] < c

\* C8: no flash_start is sent to a sensor whose live sensor_fw_ver, read as
\* (major, minor, patch), is below 1.5.4.
C8_NoFlashBelow154 ==
    \A k \in Found :
        VersionBelow(InfoOf(k).sensor_fw_ver, 1, 5, 4) => ~SentTo("flash_start", target_list[k].ip)

\* C9: safe-boot recovery of a sensor makes at most 3 attempts, each with
\* one measure, one safe_boot broadcast and one read_info broadcast: no
\* fourth read_info is broadcast in a recovery, and after the third
\* the recovery is left unless the sensor reports sensor_boot_ctrl = 0.
C9_RecoveryEnds ==
    /\ tries \in 0..3
    /\ rec_reads <= 3

HandshakePcs == {"fs_top", "fs_ep", "fs_recv"}

\* the program keeps running: some step is taken whenever one is possible
FairSpec == Spec /\ WF_vars(Next)

\* C10: the flash_start handshake stops, also when no all-zero ack arrives.
C10_HandshakeStops == (pc \in HandshakePcs) ~> (pc \notin HandshakePcs)

FinishPcs == {"ff_top", "ff_recv"}

\* C11: the wait for the verifying info frame after cmd_flash_finish ends,
\* also when no info frame of the target reports the file's version: the
\* sensor is then left as skipped and the run goes on.
C11_VerificationEnds == (pc \in FinishPcs) ~> (pc \notin FinishPcs)

BlockPcs == {"blk_send", "blk_recv", "blk_check"}

\* the runs with a sensor to recover on the first endpoint and an eligible
\* sensor on the second one
SensorInit ==
    /\ Init
    /\ sensors = <<Sensor(IpA, NotSafe(1)), Sensor(IpB, Good(2)), NoSensor>>
    /\ target_type = "ALL"

\* the sensor's ack for block _o, with bit _o set, is the datagram the
\* reading loop of lines 2001-2020 ends with
AckDelivered ==
    /\ pc = "blk_recv"
    /\ BlkRecv(AckFrame(target_ip, PrefixBits(o + 1)))
    /\ pc' = "blk_check"

\* the program keeps running; the sensor acknowledges every block it gets and
\* the channel does not drop the blocks or their acks for ever
SensorSpec == SensorInit /\ [][Next]_vars /\ WF_vars(Next) /\ SF_vars(AckDelivered)

\* C12: with a sensor that acknowledges the blocks it receives and a channel
\* that does not drop for ever, the block transfer of a sensor leads to
\* every block 0..255 acknowledged and cmd_flash_finish sent to the sensor.
C12_TransferCompletes ==
    (pc \in BlockPcs) ~>
        (/\ pc = "ff_top"
         /\ item.sensor_sn \in h_blocks_acked
         /\ blk_last = 255
         /\ Frame("flash_finish", item.sensor_sn, target_ip, NextEp(1, target_ip)) \in sent)

C12_Witness ==
    /\ pc = "ff_top" /\ blk_last = 255
    /\ item.sensor_sn \in h_blocks_acked
    /\ Frame("flash_finish", item.sensor_sn, target_ip, NextEp(1, target_ip)) \in sent

\* the reboot frame has gone out on every endpoint's broadcast address
RebootSent == \A e \in Endpoints : Frame("reboot", 0, host_list[e].config, e) \in sent

\* C13: once the per-sensor loop of the run is over, with sensors updated or
\* skipped, cmd_reboot is broadcast on every endpoint and the sockets are
\* closed only after that; no reboot frame is sent before the loop is over.
C13_RebootThenClose ==
    /\ pc = "result" => sockets_open /\ Processed(Len(bin_list))
    /\ pc = "close" => sockets_open /\ RebootSent
    /\ pc = "done" /\ bin_idx > 0 => ~sockets_open /\ RebootSent
    /\ (\E f \in sent : f.kind = "reboot") => pc \in {"close", "done"} /\ RebootSent
    /\ bin_idx > 0 /\ ~sockets_open => RebootSent

C13_Witness ==
    /\ pc = "done" /\ ~sockets_open /\ RebootSent
    /\ sensor_skipped # <<>> /\ sensor_updated # <<>>

SlotSeen(k) == \E j \in 1..Len(recv_info_list) : recv_info_list[j][1] = k

AllSlotsSeen == \A k \in 1..Len(target_list) : SlotSeen(k)

\* C15: the discovery loop of cmd_run goes round again only while Enter is
\* not pressed and, for targets other than ALL, some slot is not filled; it
\* is left at the end of a polling round only for targets other than ALL
\* with every slot filled, and with ALL only by Enter.
C15_DiscoveryEnds ==
    /\ [](pc = "run_top" /\ target_type # "ALL" => ~AllSlotsSeen)
    /\ [][pc = "run_check" /\ pc' = "run_found" => target_type # "ALL" /\ AllSlotsSeen]_vars
    /\ [][pc = "run_check" /\ target_type = "ALL" => pc' = "run_top"]_vars

\* C16: every slot is filled at most once. recv_info_list holds at most one
\* entry per slot, every entry carries the serial recv_sn_list has for its
\* slot, a filled slot keeps its serial and address, and with ALL no serial
\* is twice in recv_sn_list.
C16_SlotFilledOnce ==
    /\ [](\A i, j \in 1..Len(recv_info_list) :
            recv_info_list[i][1] = recv_info_list[j][1] => i = j)
    /\ [](\A j \in 1..Len(recv_info_list) :
            recv_sn_list[recv_info_list[j][1]] = recv_info_list[j][2].sensor_sn)
    /\ [](command # "config" /\ target_type = "ALL" =>
            \A i, j \in 1..Len(recv_sn_list) : recv_sn_list[i] = recv_sn_list[j] => i = j)
    /\ [][\A k \in 1..Len(recv_sn_list) :
            SlotSeen(k) => /\ k <= Len(recv_sn_list')
                           /\ recv_sn_list'[k] = recv_sn_list[k]
                           /\ target_list'[k] = target_list[k]
                           /\ \A j \in 1..Len(recv_info_list') :
                                recv_info_list'[j][1] = k => j <= Len(recv_info_list)]_vars

\* every command of the tool
ProgramSpec == (Init \/ RunInit) /\ [][Next \/ RunNext]_vars

\* two firmware files, or two configuration files, carry one serial
SameSerialTwice ==
    \/ \E i, j \in 1..Len(bin_list) : i # j /\ bin_list[i].sensor_sn = bin_list[j].sensor_sn
    \/ \E i, j \in 1..Len(param_list) : i # j /\ param_list[i].sensor_sn = param_list[j].sensor_sn

\* C17: with two configuration files (config) or two firmware files (update,
\* overwrite) of one serial the command ends with no socket opened and no
\* datagram sent.
C17_DuplicatesAbort ==
    SameSerialTwice =>
        /\ ~sockets_open
        /\ sent = {}
        /\ pc \in {"start", "main", "cfg_start", "done"}

C17_Witness == pc = "done" /\ SameSerialTwice /\ sent = {} /\ ~sockets_open

\* a run of cmd_sendonly that has sent its frames
SendOnlyDone ==
    /\ command \in SendOnlyCommands
    /\ NoSnTarget(target_list)
    /\ pc \in {"so_close", "done"}

\* C18: cmd_sendonly with address targets sends the command frame with serial
\* 0 to every target address (through the endpoint whose subnet contains
\* it), with ALL to every endpoint's broadcast address, and sends nothing
\* else: no read_info goes out.
C18_SendOnlyUnicast ==
    SendOnlyDone =>
        sent = IF target_type = "ALL" THEN Broadcast(command)
               ELSE UNION {Unicast(command, 0, target_list[k].ip) : k \in 1..Len(target_list)}

\* address a is the address of a target of the command: given as argument,
\* or found by the discovery for a slot
TargetAddr(a) == \E k \in 1..Len(target_list) : target_list[k].kind = "IP" /\ target_list[k].ip = a

Reachable(a) == \E e \in Endpoints : is_in_subnet(a, host_list[e].ip, host_list[e].subnet)

\* C20: when cmd_run has sent the frames of a command other than info, every
\* filled slot whose sensor address lies in an endpoint's subnet has got the
\* command frame with the slot's discovered serial at that address, and no
\* command frame went to the address of a slot that was not filled.
C20_CommandPerSlot ==
    pc = "run_close" /\ command # "info" =>
        \A k \in 1..Len(recv_sn_list) :
            IF SlotSeen(k)
            THEN Reachable(target_list[k].ip) =>
                    \E j \in 1..Len(recv_info_list), e \in Endpoints :
                        /\ recv_info_list[j][1] = k
                        /\ Frame(command, recv_info_list[j][2].sensor_sn, target_list[k].ip, e) \in sent
            ELSE \A f \in sent :
                    f.kind = command /\ f.dst = target_list[k].ip =>
                        \E i \in 1..Len(target_list) : SlotSeen(i) /\ target_list[i].ip = f.dst

\* the addresses of the sensors the discovery of cmd_run has found
DiscoveredAddrs == {target_list[k].ip : k \in {x \in 1..Len(target_list) : SlotSeen(x)}}

\* the serial the sensor at address a has reported
SerialAt(a) ==
    LET k == CHOOSE x \in 1..Len(target_list) : SlotSeen(x) /\ target_list[x].ip = a
        j == CHOOSE x \in 1..Len(recv_info_list) : recv_info_list[x][1] = k
    IN recv_info_list[j][2].sensor_sn

\* C21: the array the info command writes is in non-decreasing order of
\* sensor_sn and holds exactly one record for every discovered sensor.
C21_InfoSortedOnePerSensor ==
    pc = "run_close" /\ command = "info" =>
        /\ \A i, j \in 1..Len(output_info) :
                i < j => output_info[i].sensor_sn <= output_info[j].sensor_sn
        /\ Len(output_info) = Cardinality(DiscoveredAddrs)
        /\ \A a \in DiscoveredAddrs :
                \E j \in 1..Len(output_info) : output_info[j].sensor_sn = SerialAt(a)

\* the frames cmd_config_run has sent to address a that change what the
\* sensor has stored
ConfigFramesTo(a) == {j \in 1..Len(cfg_log) : cfg_log[j].dst = a /\ cfg_log[j].kind \in {"info_v2", "store"}}

\* C22: cmd_config_run sends no info-v2 frame and no cmd_store to a sensor
\* that reports lock != 0, whatever its parameter file asks for.
C22_LockedUntouched ==
    command = "config" =>
        \A s \in Present :
            sensors[s].info.lock # 0 =>
                /\ ConfigFramesTo(sensors[s].ip) = {}
                /\ \A f \in sent : f.dst = sensors[s].ip => f.kind \notin {"info_v2", "store"}

\* a locked sensor was found, its file sets parameters it does not have, and
\* the run went on to configure the other sensor
C22_Witness ==
    /\ command = "config" /\ pc = "done" /\ pass_no = 1
    /\ \E j \in 1..Len(recv_info_list) :
            /\ recv_info_list[j][2].lock # 0
            /\ param_list[recv_info_list[j][1]].capture_period_us = 100000
            /\ recv_info_list[j][2].capture_period_us # 100000
    /\ \E j \in 1..Len(cfg_log) : cfg_log[j].kind = "store"

\* the live record of slot k: item[1] of the entry of recv_info_list
LiveOf(k) == recv_info_list[CHOOSE j \in 1..Len(recv_info_list) : recv_info_list[j][1] = k][2]

\* overwrite_info_v2 was called for the file of slot k
Merged(k) == kept[k] # -1

\* a parameter of a file is blank, or a list with a blank element
HasBlank(f, v) ==
    IF f \in ListFields THEN v = BlankList \/ \E e \in 1..Len(v) : v[e] = Blank ELSE v = Blank

\* C23: after the merge every parameter of the record is a concrete value,
\* the live one where the file was blank (also in a single element of a
\* list) and the file's otherwise; the count is the number of blank
\* parameters.
C23_MergeFillsBlanks ==
    command = "config" =>
        \A k \in 1..Len(kept) :
            Merged(k) =>
                /\ Encodable(params[k])
                /\ \A f \in WritableFields :
                        IF f \in ListFields /\ param_list[k][f] # BlankList
                        THEN \A e \in 1..Len(params[k][f]) :
                                params[k][f][e] = IF param_list[k][f][e] = Blank
                                                  THEN LiveOf(k)[f][e] ELSE param_list[k][f][e]
                        ELSE params[k][f] = IF IsBlank(f, param_list[k][f])
                                            THEN LiveOf(k)[f] ELSE param_list[k][f]
                /\ kept[k] = Cardinality({f \in WritableFields : HasBlank(f, param_list[k][f])})

\* the info-v2 frames and the cmd_store frames sent to the sensor of slot k
InfoSentTo(k) == {j \in 1..Len(cfg_log) : cfg_log[j].dst = target_list[k].ip /\ cfg_log[j].kind = "info_v2"}
StoreSentTo(k) == {j \in 1..Len(cfg_log) : cfg_log[j].dst = target_list[k].ip /\ cfg_log[j].kind = "store"}

\* C24: a sensor whose merged record equals its live record in every
\* parameter gets no info-v2 frame and no cmd_store; a sensor with a
\* difference gets both.
C24_DiffDecidesSend ==
    command = "config" =>
        \A k \in 1..Len(kept) :
            Merged(k) =>
                IF print_diff_info_v2(LiveOf(k), params[k]) = 0
                THEN InfoSentTo(k) = {} /\ StoreSentTo(k) = {}
                ELSE InfoSentTo(k) # {} /\ StoreSentTo(k) # {}

\* C25: a sensor with a difference gets exactly one info-v2 frame, which
\* carries the merged record, and after it exactly one cmd_store; no
\* cmd_store goes to a sensor before an info-v2 frame went to it.
C25_OneInfoThenOneStore ==
    command = "config" =>
        /\ \A k \in 1..Len(kept) :
                Merged(k) /\ print_diff_info_v2(LiveOf(k), params[k]) > 0 =>
                    /\ Cardinality(InfoSentTo(k)) = 1
                    /\ Cardinality(StoreSentTo(k)) = 1
                    /\ \A i \in InfoSentTo(k), j \in StoreSentTo(k) :
                            /\ i < j
                            /\ \A f \in WritableFields : decode_info_v2(cfg_log[i].body)[f] = params[k][f]
        /\ \A j \in 1..Len(cfg_log) :
                cfg_log[j].kind = "store" =>
                    \E i \in 1..(j - 1) : cfg_log[i].kind = "info_v2" /\ cfg_log[i].dst = cfg_log[j].dst

\* C26: when the loop over the files is over, cmd_reboot has gone to the
\* broadcast address of every endpoint, and no cmd_reboot was sent before
\* the last cmd_store.
C26_RebootBroadcastLast ==
    /\ command = "config" /\ pc = "cfg_close" =>
            \A e \in Endpoints : Frame("reboot", 0, host_list[e].config, e) \in sent
    /\ command = "config" =>
            \A i, j \in 1..Len(cfg_log) :
                cfg_log[i].kind = "reboot" /\ cfg_log[j].kind = "store" => j < i

\* the addresses of the sensors that stored a record in the first run
AppliedIps == {h.ip : h \in h_applied}

\* C27: in a second run, against a sensor that stored the merged record of
\* the first run, the merged record of the first run and the record merged
\* again differ in no parameter from the live record, and the sensor gets
\* no info-v2 frame and no cmd_store.
C27_SecondPassNoDiff ==
    command = "config" /\ pass_no = 2 =>
        /\ \A j \in 1..Len(cfg_log) : cfg_log[j].dst \in AppliedIps => cfg_log[j].kind = "reboot"
        /\ \A k \in 1..Len(kept) :
                Merged(k) /\ target_list[k].ip \in AppliedIps =>
                    /\ print_diff_info_v2(LiveOf(k), params[k]) = 0
                    /\ \A h \in h_applied :
                            h.ip = target_list[k].ip => print_diff_info_v2(LiveOf(k), h.merged) = 0

\* the second run has merged the file of a sensor that stored a 32-bit and
\* a 16-bit parameter of the first run
C27_Witness ==
    /\ command = "config" /\ pass_no = 2 /\ pc = "cfg_close"
    /\ \E k \in 1..Len(kept) :
            /\ Merged(k)
            /\ target_list[k].ip \in AppliedIps
            /\ LiveOf(k).capture_period_us = 100000
            /\ LiveOf(k).data_port = 7258
            /\ param_list[k].capture_period_us = 100000
            /\ param_list[k].capture_mode = Blank

\* ------------------------------------------------------------------------
\* encode_info_v2 and decode_info_v2 applied to records (lines 61-259)
\* ------------------------------------------------------------------------
\* the variables of the commands while no command runs
CoreIdle ==
    /\ command = "none"
    /\ param_list = <<>>
    /\ forced_update = FALSE
    /\ target_type = "ALL"
    /\ arg_target_list = [ips |-> {}, sns |-> {}]
    /\ bin_list = <<>>
    /\ sensors = <<NoSensor, NoSensor, NoSensor>>
    /\ sockets_open = FALSE
    /\ target_list = <<>>
    /\ recv_sn_list = <<>>
    /\ recv_info_list = <<>>
    /\ sensor_updated = <<>>
    /\ sensor_skipped = <<>>
    /\ report = {}
    /\ bin_idx = 0
    /\ info_i = 0
    /\ ep_i = 0
    /\ sock_i = 0
    /\ tries = 0
    /\ error = FALSE
    /\ success = FALSE
    /\ flash_ack = NoData
    /\ sent = {}
    /\ flushed = {}
    /\ blk_last = -1
    /\ acked_upto = 0
    /\ h_start_acked = {}
    /\ h_verified = {}
    /\ rec_reads = 0
    /\ h_blocks_acked = {}

\* an info record with every key of decode_info_v2's result
FullRecord(sn, model, boot, lk, w) ==
    [sensor_sn |-> sn, sensor_hw_id |-> HwA, sensor_fw_ver |-> <<4, 5, 1>>,
     sensor_fw_date |-> [e \in 1..12 |-> 48 + e], sensor_fw_time |-> [e \in 1..9 |-> 48 + e],
     sensor_calib_id |-> 70000,
     sensor_fw0_ver |-> <<0, 0, 1>>, sensor_fw1_ver |-> OldVer, sensor_fw2_ver |-> <<0, 0, 0>>,
     sensor_model_id |-> model, sensor_boot_ctrl |-> boot, lock |-> lk] @@ w

\* parameters at the upper end of their fields
LiveWide ==
    [LiveDefault EXCEPT !.capture_mode = 255, !.capture_shutter = <<65535, 256, 255, 0, 1>>,
                        !.capture_limit = <<0, 65535>>, !.capture_period_us = 16777216,
                        !.data_baud = 921600, !.data_port = 65535,
                        !.data_mac_addr = <<255, 0, 1, 2, 3, 254>>,
                        !.sync_trig_delay_us = 65536,
                        !.sync_ill_delay_us = [e \in 1..15 |-> 4096 * e],
                        !.sync_trig_trim_us = 255, !.sync_output_delay_us = 65535,
                        !.arb_timeout = 2147483647]

\* the records handed to encode_info_v2
CodecRecords ==
    {FullRecord(sn, model, boot, lk, w) :
        sn \in {0, 1, 300, 65535}, model \in {0, 3}, boot \in {0, 1}, lk \in {0, 1},
        w \in {LiveDefault, LiveWide}}

CodecInit ==
    /\ CoreIdle
    /\ CfgIdle
    /\ BlockIdle
    /\ FnIdle
    /\ o = 0
    /\ pc = "codec"
    /\ rec \in CodecRecords
    /\ wire = <<>>
    /\ back = <<>>

codecRest == <<inVars, sockets_open, discVars, resVars, loopVars, ep_i, sock_i, recVars,
               flashVars, sent, histVars, cfgVars, blockVars, fnVars>>

\* wire = encode_info_v2(rec)
Encode ==
    /\ pc = "codec"
    /\ wire' = encode_info_v2(rec)
    /\ pc' = "encoded"
    /\ UNCHANGED <<codecRest, rec, back>>

\* back = decode_info_v2(wire)
Decode ==
    /\ pc = "encoded"
    /\ back' = decode_info_v2(wire)
    /\ pc' = "decoded"
    /\ UNCHANGED <<codecRest, rec, wire>>

CodecNext ==
    \/ Encode
    \/ Decode

CodecSpec == CodecInit /\ [][CodecNext]_vars

\* the keys of decode_info_v2's result that it reads from offsets 2..68
IdentityFields == {l.f : l \in IdentityBytes} \cup {"sensor_calib_id"}

\* C28: decode_info_v2(encode_info_v2(r)) equals r in every key except the
\* identity keys at offsets 2..68 and lock, and these are zero in the
\* encoding.
C28_CodecRoundTrip ==
    pc = "decoded" =>
        /\ \A f \in InfoFields \ (IdentityFields \cup {"lock"}) : back[f] = rec[f]
        /\ \A q \in 2..68 : wire[q] = 0
        /\ wire[165] = 0

\* ------------------------------------------------------------------------
\* The flash_block frames of one firmware file (lines 1972-1998)
\* ------------------------------------------------------------------------
\* the re-sends of one flash_block that are followed
SendCap == 3

\* the lengths of the firmware files of the modelled transfers
ImageLens == {0, 1, 1023, 1024, 1025, 3000, 262143, 262144}

\* byte p of the firmware file
ImageByte(p) == (p * 7 + p \div 1024) % 251

\* flash_block_headder and tail
FlashBlockHeader == <<165, 90, 0, 1, 38, 4>>
FrameTail == <<165, 90>>

\* mutation of Fill: zeros
Fill_Zero(n) == [j \in 1..n |-> 0]

\* bytearray([0xFF] * n)
Fill(n) == [j \in 1..n |-> 255]

\* file.read(1024) at position pos of a file of len bytes
FileRead(pos, len) ==
    LET n == IF len - pos >= 1024 THEN 1024 ELSE IF len > pos THEN len - pos ELSE 0
    IN [j \in 1..n |-> ImageByte(pos + j - 1)]

NoFrame == [head |-> <<>>, body |-> <<>>]

BlockInit ==
    /\ CoreIdle
    /\ CfgIdle
    /\ CodecIdle
    /\ FnIdle
    /\ o = 0
    /\ pc = "fb_build"
    /\ image_len \in ImageLens
    /\ file_pos = 0
    /\ flash_head = <<>>
    /\ flash_body = <<>>
    /\ block_sends = 0
    /\ first_sent = NoFrame
    /\ last_sent = NoFrame

blockRest == <<inVars, sockets_open, discVars, resVars, loopVars, ep_i, sock_i, recVars,
               success, flash_ack, flushed, sent, histVars, cfgVars, codecVars, fnVars>>

\* flash_head and flash_body of block _o are built (lines 1974-1991)
BlockBuild ==
    /\ pc = "fb_build"
    /\ LET head == FlashBlockHeader \o HwA \o <<2, 2, 0>> \o FileVer
           read_bin_data == FileRead(file_pos, image_len)
       IN /\ flash_head' = [head EXCEPT ![38 + 1] = o % 256]
          /\ flash_body' = IF Len(read_bin_data) = 0 THEN Fill(1024)
                           ELSE IF Len(read_bin_data) # 1024
                           THEN read_bin_data \o Fill(1024 - Len(read_bin_data))
                           ELSE read_bin_data
          /\ file_pos' = file_pos + Len(read_bin_data)
    /\ block_sends' = 0
    /\ pc' = "fb_send"
    /\ UNCHANGED <<blockRest, o, image_len, first_sent, last_sent>>

\* flash_block is sent (line 1997); the ack that follows leaves the bit of
\* the block clear, or no ack arrives, and the while loop goes round
BlockSend ==
    /\ pc = "fb_send"
    /\ block_sends < SendCap
    /\ block_sends' = block_sends + 1
    /\ last_sent' = [head |-> flash_head, body |-> flash_body]
    /\ first_sent' = IF block_sends = 0 THEN [head |-> flash_head, body |-> flash_body] ELSE first_sent
    /\ UNCHANGED <<blockRest, pc, o, image_len, file_pos, flash_head, flash_body>>

\* the ack has the bit of the block set: next block of for _o in range(256)
BlockAcked ==
    /\ pc = "fb_send"
    /\ block_sends > 0
    /\ IF o < 255
       THEN o' = o + 1 /\ pc' = "fb_build"
       ELSE pc' = "fb_done" /\ UNCHANGED o
    /\ UNCHANGED <<blockRest, image_len, file_pos, flash_head, flash_body, block_sends,
                   first_sent, last_sent>>

BlockNext ==
    \/ BlockBuild
    \/ BlockSend
    \/ BlockAcked

BlockSpec == BlockInit /\ [][BlockNext]_vars

\* flash_block of block _o has been sent and _o still names it
BlockSent == pc \in {"fb_send", "fb_done"} /\ block_sends > 0

\* the payload of a sent flash_block frame: the 1024 bytes after the head
Payload(fr) == fr.body

\* len(flash_block): head, body, the two bytes of flash_crc16, tail
FrameLen(fr) == Len(fr.head) + Len(fr.body) + 2 + Len(FrameTail)

\* the byte at offset q of the packet, for q before the checksum
FrameByte(fr, q) == IF q < Len(fr.head) THEN fr.head[q + 1] ELSE fr.body[q - Len(fr.head) + 1]

\* C29: the payload of flash_block i is bytes i*1024 .. i*1024+1023 of the
\* file, with 0xFF at the positions at or beyond its length, and every
\* re-send of the block carries the payload of its first send.
C29_BlockPayload ==
    BlockSent =>
        /\ Len(Payload(first_sent)) = 1024
        /\ \A j \in 1..1024 :
                Payload(first_sent)[j] = IF o * 1024 + j - 1 < image_len
                                         THEN ImageByte(o * 1024 + j - 1) ELSE 255
        /\ Payload(last_sent) = Payload(first_sent)

\* block 2 of a file of 3000 bytes was sent twice: 952 bytes of the file,
\* then 0xFF
C29_Witness ==
    /\ pc = "fb_send" /\ o = 2 /\ image_len = 3000 /\ block_sends >= 2
    /\ Payload(last_sent)[952] = ImageByte(2999)
    /\ Payload(last_sent)[953] = 255
    /\ ImageByte(2999) # 255

\* C30: in every flash_block frame of block i the byte at offset 38 of the
\* body, 44 bytes after the start of the packet, is i, and the frame is
\* 1070 bytes long.
C30_BlockIndexAt44 ==
    BlockSent =>
        /\ FrameByte(last_sent, 44) = o
        /\ FrameLen(last_sent) = 1070

\* ------------------------------------------------------------------------
\* get_crc16 (lines 424-466)
\* ------------------------------------------------------------------------
RECURSIVE BitXor(_, _, _)
\* x ^ y on n bits
BitXor(x, y, n) ==
    IF n = 0 THEN 0
    ELSE (IF x % 2 # y % 2 THEN 1 ELSE 0) + 2 * BitXor(x \div 2, y \div 2, n - 1)

\* CRC-16 CCITT lookup table
CRC16Table ==
    <<0, 4129, 8258, 12387, 16516, 20645, 24774, 28903,
       33032, 37161, 41290, 45419, 49548, 53677, 57806, 61935,
       4657, 528, 12915, 8786, 21173, 17044, 29431, 25302,
       37689, 33560, 45947, 41818, 54205, 50076, 62463, 58334,
       9314, 13379, 1056, 5121, 25830, 29895, 17572, 21637,
       42346, 46411, 34088, 38153, 58862, 62927, 50604, 54669,
       13907, 9842, 5649, 1584, 30423, 26358, 22165, 18100,
       46939, 42874, 38681, 34616, 63455, 59390, 55197, 51132,
       18628, 22757, 26758, 30887, 2112, 6241, 10242, 14371,
       51660, 55789, 59790, 63919, 35144, 39273, 43274, 47403,
       23285, 19156, 31415, 27286, 6769, 2640, 14899, 10770,
       56317, 52188, 64447, 60318, 39801, 35672, 47931, 43802,
       27814, 31879, 19684, 23749, 11298, 15363, 3168, 7233,
       60846, 64911, 52716, 56781, 44330, 48395, 36200, 40265,
       32407, 28342, 24277, 20212, 15891, 11826, 7761, 3696,
       65439, 61374, 57309, 53244, 48923, 44858, 40793, 36728,
       37256, 33193, 45514, 41451, 53516, 49453, 61774, 57711,
       4224, 161, 12482, 8419, 20484, 16421, 28742, 24679,
       33721, 37784, 41979, 46042, 49981, 54044, 58239, 62302,
       689, 4752, 8947, 13010, 16949, 21012, 25207, 29270,
       46570, 42443, 38312, 34185, 62830, 58703, 54572, 50445,
       13538, 9411, 5280, 1153, 29798, 25671, 21540, 17413,
       42971, 47098, 34713, 38840, 59231, 63358, 50973, 55100,
       9939, 14066, 1681, 5808, 26199, 30326, 17941, 22068,
       55628, 51565, 63758, 59695, 39368, 35305, 47498, 43435,
       22596, 18533, 30726, 26663, 6336, 2273, 14466, 10403,
       52093, 56156, 60223, 64286, 35833, 39896, 43963, 48026,
       19061, 23124, 27191, 31254, 2801, 6864, 10931, 14994,
       64814, 60687, 56684, 52557, 48554, 44427, 40424, 36297,
       31782, 27655, 23652, 19525, 15522, 11395, 7392, 3265,
       61215, 65342, 53085, 57212, 44955, 49082, 36825, 40952,
       28183, 32310, 20053, 24180, 11923, 16050, 3793, 7920>>

\* mutation of CrcStep: the table is indexed with the low byte of crc
CrcStep_LowByte(c, byte) ==
    BitXor(c * 256, CRC16Table[BitXor(c % 256, byte, 8) + 1], 24) % 65536

\* crc = (crc << 8) ^ CRC16Table[(crc >> 8) ^ byte]; crc &= 0xFFFF
CrcStep(c, byte) ==
    BitXor(c * 256, CRC16Table[BitXor(c \div 256, byte, 8) + 1], 24) % 65536

\* the ASCII bytes of "123456789"
Digits9 == <<49, 50, 51, 52, 53, 54, 55, 56, 57>>

\* the byte sequences handed to get_crc16: the empty one, every single
\* byte, pairs and triples of some bytes, "123456789", a cmd_read_info frame
CrcPackets ==
    {<<>>, Digits9, <<165, 90, 48, 0, 4, 0, 0, 3, 0, 0, 165, 90>>}
    \cup {<<b>> : b \in 0..255}
    \cup {<<a, b>> : a, b \in {0, 1, 49, 128, 255}}
    \cup {<<a, b, c>> : a, b, c \in {0, 128, 255}}

CrcInit ==
    /\ CoreIdle
    /\ CfgIdle
    /\ BlockIdle
    /\ CodecIdle
    /\ o = 0
    /\ pc = "crc_loop"
    /\ packet \in CrcPackets
    /\ crc = 65535
    /\ crc_i = 0
    /\ opts = <<>>
    /\ listening_list = <<>>

crcRest == <<inVars, sockets_open, discVars, resVars, loopVars, ep_i, sock_i, recVars,
             flashVars, sent, histVars, cfgVars, blockVars, codecVars, opts, listening_list>>

\* one pass of `for byte in packet`
CrcByte ==
    /\ pc = "crc_loop"
    /\ crc_i < Len(packet)
    /\ crc' = CrcStep(crc, packet[crc_i + 1])
    /\ crc_i' = crc_i + 1
    /\ UNCHANGED <<crcRest, pc, packet>>

\* return crc
CrcReturn ==
    /\ pc = "crc_loop"
    /\ crc_i = Len(packet)
    /\ pc' = "crc_done"
    /\ UNCHANGED <<crcRest, packet, crc, crc_i>>

CrcNext ==
    \/ CrcByte
    \/ CrcReturn

CrcSpec == CrcInit /\ [][CrcNext]_vars

\* one bit of the bitwise CRC-16/CCITT: shift left, and XOR with the
\* polynomial 0x1021 when the bit shifted out is 1
ShiftBit(c) == IF c >= 32768 THEN BitXor((c * 2) % 65536, 4129, 16) ELSE (c * 2) % 65536

RECURSIVE ShiftBits(_, _)
ShiftBits(c, n) ==
    IF n = 0 THEN c
    ELSE LET d == ShiftBit(c) IN IF d \in 0..65535 THEN ShiftBits(d, n - 1) ELSE d

RECURSIVE CrcBitwise(_)
\* the bitwise CRC-16/CCITT of a byte sequence: initial value 0xFFFF, every
\* byte XORed into the high byte, eight shifts, no reflection, no final XOR
CrcBitwise(p) ==
    IF p = <<>> THEN 65535
    ELSE LET before == CrcBitwise(SubSeq(p, 1, Len(p) - 1))
         IN IF before \in 0..65535
            THEN ShiftBits(BitXor(before, p[Len(p)] * 256, 16), 8)
            ELSE before

\* C31: get_crc16 equals the bitwise CRC-16/CCITT (polynomial 0x1021, initial
\* value 0xFFFF, no reflection, no final XOR) after every byte of the packet,
\* its value lies in 0..65535, and for "123456789" it returns 0x29B1.
C31_CrcIsCcitt ==
    pc \in {"crc_loop", "crc_done"} =>
        /\ crc = CrcBitwise(SubSeq(packet, 1, crc_i))
        /\ crc \in 0..65535
        /\ pc = "crc_done" /\ packet = Digits9 => crc = 10673

\* get_crc16 has returned for "123456789"
C31_Witness == pc = "crc_done" /\ packet = Digits9 /\ crc_i = 9 /\ crc = 10673

\* ------------------------------------------------------------------------
\* Options of the command line: the listening list (lines 2219-2321)
\* ------------------------------------------------------------------------
\* the port of an option without a port (check_option)
DefaultPort == 7256

\* the interfaces `ip -4 addr` reports: address and prefix length
HostIfs ==
    << [ip |-> <<192, 168, 5, 2>>, cidr |-> 24],
       [ip |-> <<10, 0, 0, 2>>, cidr |-> 24],
       [ip |-> <<172, 16, 4, 9>>, cidr |-> 20] >>

\* cidr_to_subnet: the mask with the cidr highest bits set, as four octets
cidr_to_subnet(cidr) ==
    [k \in 1..4 |->
        IF cidr >= 8 * k THEN 255
        ELSE IF cidr <= 8 * (k - 1) THEN 0
        ELSE 256 - Pow2(8 * k - cidr)]

\* get_ip_list: the addresses of the interfaces, each once
get_ip_list == [k \in 1..Len(HostIfs) |-> HostIfs[k].ip]

\* get_subnet_mask: the mask of the first interface with the address, else ''
get_subnet_mask(ip) ==
    LET at == {k \in 1..Len(HostIfs) : HostIfs[k].ip = ip}
    IN IF at = {} THEN <<>>
       ELSE cidr_to_subnet(HostIfs[CHOOSE k \in at : \A j \in at : k <= j].cidr)

\* get_broadcast_ip: IPv4Network(ip/subnet, strict=False).broadcast_address,
\* the network address with every host bit set
get_broadcast_ip(ip, subnet) ==
    [k \in 1..4 |-> BitAnd(ip[k], subnet[k], 8) + (255 - subnet[k])]

\* the parts of an option token between its colons: a dotted quad that is an
\* IPv4 address, a string of digits, or anything else
IpPart(a) == [k |-> "ip", ip |-> a, n |-> 0]
NumPart(n) == [k |-> "num", ip |-> <<>>, n |-> n]
JunkPart == [k |-> "junk", ip |-> <<>>, n |-> 0]

\* check_option: (result, ip, port) of one token; ip <<>> stands for ''
check_option(arg) ==
    LET parsed ==
            IF Len(arg) = 1 /\ arg[1].k = "ip"
            THEN [ok |-> TRUE, ip |-> arg[1].ip, port |-> DefaultPort]
            ELSE IF Len(arg) = 1 /\ arg[1].k = "num"
            THEN [ok |-> TRUE, ip |-> <<>>, port |-> arg[1].n]
            ELSE IF Len(arg) = 2 /\ arg[1].k = "ip" /\ arg[2].k = "num"
            THEN [ok |-> TRUE, ip |-> arg[1].ip, port |-> arg[2].n]
            ELSE [ok |-> FALSE, ip |-> <<>>, port |-> DefaultPort]
    IN IF ~parsed.ok THEN parsed
       ELSE IF parsed.ip # <<>> /\ \A k \in 1..Len(get_ip_list) : get_ip_list[k] # parsed.ip
       THEN [parsed EXCEPT !.ok = FALSE]
       ELSE IF parsed.port < 0 \/ parsed.port > 65535
       THEN [parsed EXCEPT !.ok = FALSE]
       ELSE parsed

\* the entry of listening_list for an address
Listening(ip, port) ==
    [ip |-> ip, port |-> port, subnet |-> get_subnet_mask(ip),
     config |-> get_broadcast_ip(ip, get_subnet_mask(ip))]

\* the positions of listening_list that hold the address
KeyAt(ll, ip) == {k \in 1..Len(ll) : ll[k].ip = ip}

RECURSIVE UseSender(_, _)
\* `for sender_option in args.sender` (lines 2246-2259)
UseSender(ll, toks) ==
    IF toks = <<>> THEN ll
    ELSE LET r == check_option(Head(toks))
             nxt == IF r.ok /\ r.ip # <<>>
                    THEN IF KeyAt(ll, r.ip) # {}
                         THEN [k \in 1..Len(ll) |->
                                 IF k \in KeyAt(ll, r.ip)
                                 THEN [ll[k] EXCEPT !.port = Append(@, DefaultPort)]
                                 ELSE ll[k]]
                         ELSE Append(ll, Listening(r.ip, <<r.port>>))
                    ELSE ll
         IN UseSender(nxt, Tail(toks))

RECURSIVE UseSenderIp(_, _)
\* `for sender_option in args.sender_ip` (lines 2268-2280): the entries have
\* no port yet
UseSenderIp(ll, toks) ==
    IF toks = <<>> THEN ll
    ELSE LET r == check_option(Head(toks))
             nxt == IF r.ok /\ r.ip # <<>> /\ r.port = DefaultPort /\ KeyAt(ll, r.ip) = {}
                    THEN Append(ll, Listening(r.ip, <<>>))
                    ELSE ll
         IN UseSenderIp(nxt, Tail(toks))

RECURSIVE UseHostIps(_, _, _)
\* `for single_ip in host_ip_list` (lines 2228-2239, 2283-2291): port 7256 in
\* the branch without options, no port yet in the --sender_port branch
UseHostIps(ll, ips, port) ==
    IF ips = <<>> THEN ll
    ELSE LET ip == Head(ips)
             nxt == IF KeyAt(ll, ip) # {}
                    THEN [k \in 1..Len(ll) |->
                            IF k \in KeyAt(ll, ip) /\ port # <<>>
                            THEN [ll[k] EXCEPT !.port = @ \o port]
                            ELSE ll[k]]
                    ELSE Append(ll, Listening(ip, port))
         IN UseHostIps(nxt, Tail(ips), port)

RECURSIVE UseSenderPort(_, _)
\* `for sender_option in args.sender_port` (lines 2295-2302)
UseSenderPort(port_list, toks) ==
    IF toks = <<>> THEN port_list
    ELSE LET r == check_option(Head(toks))
         IN UseSenderPort(IF r.ok /\ r.ip = <<>> THEN Append(port_list, r.port) ELSE port_list,
                          Tail(toks))

\* the tokens of the modelled command lines
IfA == HostIfs[1].ip
IfC == HostIfs[3].ip
SenderTokens ==
    { <<IpPart(IfA)>>, <<IpPart(IfA), NumPart(7256)>>, <<IpPart(IfA), NumPart(7258)>>,
      <<IpPart(IfA), NumPart(65535)>>, <<IpPart(IfA), NumPart(65536)>>,
      <<IpPart(IfC), NumPart(0)>>, <<IpPart(IpF), NumPart(7256)>>,
      <<NumPart(7300)>>, <<JunkPart>>, <<IpPart(IfA), JunkPart>>,
      <<IpPart(IfA), NumPart(1), NumPart(2)>> }
SenderIpTokens ==
    { <<IpPart(IfA)>>, <<IpPart(IfC)>>, <<IpPart(IpF)>>, <<IpPart(IfA), NumPart(7258)>>,
      <<JunkPart>> }
SenderPortTokens ==
    { <<NumPart(7256)>>, <<NumPart(0)>>, <<NumPart(65536)>>, <<IpPart(IfA)>>, <<JunkPart>> }

\* the lists argparse makes of nargs='+': one or two tokens; <<>> stands for
\* None, an option that was not given
Given(T) == {<<t>> : t \in T} \cup {<<t, u>> : t, u \in T}
OptionSets ==
    {[sender |-> <<>>, sender_ip |-> <<>>, sender_port |-> <<>>]}
    \cup {[sender |-> s, sender_ip |-> <<>>, sender_port |-> <<>>] : s \in Given(SenderTokens)}
    \cup {[sender |-> <<SenderTok>>, sender_ip |-> a, sender_port |-> <<>>] :
            SenderTok \in {<<IpPart(IfA), NumPart(7258)>>}, a \in Given({<<IpPart(IfC)>>})}
    \cup {[sender |-> <<>>, sender_ip |-> a, sender_port |-> p] :
            a \in {<<>>} \cup Given(SenderIpTokens), p \in Given(SenderPortTokens)}
    \cup {[sender |-> <<>>, sender_ip |-> a, sender_port |-> <<>>] : a \in Given(SenderIpTokens)}

OptInit ==
    /\ CoreIdle
    /\ CfgIdle
    /\ BlockIdle
    /\ CodecIdle
    /\ o = 0
    /\ pc = "options"
    /\ packet = <<>>
    /\ crc = 0
    /\ crc_i = 0
    /\ opts \in OptionSets
    /\ listening_list = <<>>

optRest == <<inVars, sockets_open, discVars, resVars, loopVars, ep_i, sock_i, recVars,
             flashVars, sent, histVars, cfgVars, blockVars, codecVars, packet, crc, crc_i, opts>>

\* no option: every interface of the host with port 7256 (lines 2223-2239)
OptNone ==
    /\ pc = "options"
    /\ opts.sender = <<>> /\ opts.sender_ip = <<>> /\ opts.sender_port = <<>>
    /\ listening_list' = UseHostIps(<<>>, get_ip_list, <<DefaultPort>>)
    /\ pc' = "interface"
    /\ UNCHANGED optRest

\* --sender (lines 2241-2259)
OptSender ==
    /\ pc = "options"
    /\ opts.sender # <<>>
    /\ listening_list' = UseSender(<<>>, opts.sender)
    /\ pc' = "interface"
    /\ UNCHANGED optRest

\* --sender_ip and --sender_port (lines 2261-2309): every address gets the
\* one port_list
OptSenderIpPort ==
    /\ pc = "options"
    /\ opts.sender = <<>>
    /\ opts.sender_ip # <<>> \/ opts.sender_port # <<>>
    /\ LET ll == IF opts.sender_ip # <<>> THEN UseSenderIp(<<>>, opts.sender_ip)
                 ELSE UseHostIps(<<>>, get_ip_list, <<>>)
           port_list == IF opts.sender_port # <<>> THEN UseSenderPort(<<>>, opts.sender_port)
                        ELSE <<DefaultPort>>
       IN listening_list' = [k \in 1..Len(ll) |-> [ll[k] EXCEPT !.port = port_list]]
    /\ pc' = "interface"
    /\ UNCHANGED optRest

\* ip_num == 0: sys.exit() (lines 2318-2321)
OptExit ==
    /\ pc = "interface"
    /\ Len(listening_list) = 0
    /\ pc' = "exit"
    /\ UNCHANGED <<optRest, listening_list>>

\* net_msg = { 'listening_list': listening_list } and the call of the command
\* (lines 2323-2338)
OptCommand ==
    /\ pc = "interface"
    /\ Len(listening_list) > 0
    /\ pc' = "net_msg"
    /\ UNCHANGED <<optRest, listening_list>>

OptNext == OptNone \/ OptSender \/ OptSenderIpPort \/ OptExit \/ OptCommand

OptSpec == OptInit /\ [][OptNext]_vars

\* the tokens of --sender that name a host address and a port in 0..65535
ValidSender(t) ==
    /\ Len(t) = 2 /\ t[1].k = "ip" /\ t[2].k = "num"
    /\ \E k \in 1..Len(HostIfs) : HostIfs[k].ip = t[1].ip
    /\ t[2].n \in 0..65535

\* endpoint e listens on the port
ListensOn(e, port) == \E k \in 1..Len(e.port) : e.port[k] = port

\* C32: every valid --sender token ip:port yields an endpoint bound to ip that
\* listens on the port, also when several tokens name the same ip with
\* different ports, and a token whose ip is no host address or whose port is
\* out of range yields no endpoint.
C32_SenderTokensListen ==
    pc \in {"interface", "exit", "net_msg"} /\ opts.sender # <<>> =>
        /\ \A i \in 1..Len(opts.sender) :
             ValidSender(opts.sender[i]) =>
                \E k \in 1..Len(listening_list) :
                    /\ listening_list[k].ip = opts.sender[i][1].ip
                    /\ ListensOn(listening_list[k], opts.sender[i][2].n)
        /\ \A k \in 1..Len(listening_list) :
             \E i \in 1..Len(opts.sender) :
                /\ check_option(opts.sender[i]).ok
                /\ check_option(opts.sender[i]).ip = listening_list[k].ip

RECURSIVE BitOr(_, _, _)
\* x | y on n bits
BitOr(x, y, n) ==
    IF n = 0 THEN 0
    ELSE (IF x % 2 = 1 \/ y % 2 = 1 THEN 1 ELSE 0) + 2 * BitOr(x \div 2, y \div 2, n - 1)

\* C33: every endpoint handed to a command has at least one port and its
\* broadcast address is bind_ip | ~subnet, for every combination of the
\* options, also when every port token is invalid.
C33_EndpointsWellFormed ==
    pc = "net_msg" =>
        \A k \in 1..Len(listening_list) :
            /\ listening_list[k].port # <<>>
            /\ \A b \in 1..4 :
                 listening_list[k].config[b]
                   = BitOr(listening_list[k].ip[b], 255 - listening_list[k].subnet[b], 8)

\* ------------------------------------------------------------------------
\* Properties of the whole run
\* ------------------------------------------------------------------------
\* C34: after cmd_run, cmd_sendonly, cmd_config_run or cmd_update_run has
\* returned, no socket the command opened is open.
C34_ClosedOnReturn == pc = "done" => sockets_open = FALSE

C34_Witness == pc = "done" /\ sockets_open = FALSE /\ sent # {}

\* C35: during block transfer the host moves from block o to block o + 1 only
\* on an ack frame received from target_ip with bit o set; a datagram of
\* another sender changes no block index and triggers only a pause frame.
C35_ForeignNeverAdvances ==
    [][/\ pc = "blk_check" /\ o' = o + 1 =>
            flash_ack.src = target_ip /\ ObsAck(flash_ack) /\ AckBit(flash_ack, o) = 1
       /\ pc = "blk_recv" =>
            /\ o' = o
            /\ sent' # sent =>
                 flash_ack'.src # target_ip /\ \A f \in sent' \ sent : f.kind = "pause"]_vars

\* C36: an update run that has broadcast safe_boot and has returned has
\* broadcast reboot on every endpoint, also when discovery found no sensor.
C36_RebootAfterSafeBoot ==
    pc = "done" /\ Broadcast("safe_boot") \subseteq sent =>
        \A e \in Endpoints : Frame("reboot", 0, host_list[e].config, e) \in sent

\* C37: safe-boot recovery stops at the first attempt on which the sensor
\* reports sensor_boot_ctrl == 0: an attempt (cmd_measure to the sensor and
\* the cmd_safe_boot broadcast of RecTry) starts only while no such report
\* has been read.
C37_RecoveryStopsAtSuccess ==
    [][pc = "rec_try" /\ pc' = "rec_poll" =>
          /\ error = TRUE
          /\ sent' = sent \cup {Frame("measure", 0, target_ip, ep_i),
                                Frame("safe_boot", 0, host_list[ep_i].config, ep_i)}]_vars

\* ------------------------------------------------------------------------
\* An update with a firmware file of serial 0
\* ------------------------------------------------------------------------
\* read_bin_files takes the serial from the file name: int(parts[5])
ZeroSerials == <<0, 2>>

\* the sensor of serial 0 and the sensor of serial 2 answer, a third station
\* may be on the first endpoint's subnet
ZeroWorlds ==
    {<<Sensor(IpA, i1), Sensor(IpB, i2), s3>> :
        i1 \in {Good(0)}, i2 \in {Good(2), NotSafe(2)}, s3 \in {NoSensor, Stray}}

ZeroInit ==
    /\ forced_update = FALSE
    /\ target_type = "ALL"
    /\ arg_target_list = [ips |-> {}, sns |-> {0}]
    /\ sensors \in ZeroWorlds
    /\ bin_list = [k \in 1..Len(ZeroSerials) |-> BinFile(ZeroSerials[k])]
    /\ command = IF forced_update THEN "overwrite" ELSE "update"
    /\ Entered

ZeroSpec == ZeroInit /\ [][Next]_vars

\* the serials of a list
Serials(l) == {l[k] : k \in 1..Len(l)}

\* C38: at the end of an update run sensor_updated and sensor_skipped are
\* disjoint, neither holds a serial twice, their union is the set of the
\* discovered sensors that have a firmware file, and a serial is in
\* sensor_updated only if its flash_finish verification succeeded.
C38_ResultLists ==
    pc \in {"result", "close"} =>
        /\ Serials(sensor_updated) \cap Serials(sensor_skipped) = {}
        /\ duplicates(sensor_updated) = {}
        /\ duplicates(sensor_skipped) = {}
        /\ Serials(sensor_updated) \cup Serials(sensor_skipped)
             = {bin_list[k].sensor_sn : k \in Found}
        /\ Serials(sensor_updated) \subseteq h_verified

\* C39: in the flash_start handshake the socket drained before the ack is
\* awaited is a data socket of the endpoint whose subnet contains the target,
\* one of the sockets the ack is then read from.
C39_DrainsTargetSocket ==
    pc = "fs_recv" =>
        \E s \in flushed :
            /\ s[1] = ep_i
            /\ EpHas(s[1], target_ip)
            /\ s[2] \in 1..NumData(s[1])

\* datagrams that are not info frames, from every station of the network: a
\* status frame, an info frame cut short by one byte, and 174 bytes under
\* another header
NonInfoDgrams ==
    UNION {{StatusFrame(sensors[k].ip),
            ShortInfoFrame(sensors[k].ip, sensors[k].info),
            Dgram(sensors[k].ip, InfoFrameLen, "ack_header", sensors[k].info, ZeroBits)} :
           k \in Present}

\* the same for cmd_config_run, which decodes the bytes of the datagram
NonInfoBodies ==
    UNION {{BodyFrame(sensors[k].ip, StatusFrameLen, "status_header", SensorBody(k)),
            BodyFrame(sensors[k].ip, InfoFrameLen - 1, "info_v2_header", SensorBody(k)),
            BodyFrame(sensors[k].ip, InfoFrameLen, "ack_header", SensorBody(k))} :
           k \in Present}

\* C40: in the discovery loops of cmd_run and cmd_config_run a datagram that
\* is not 174 bytes long or does not start with the info-v2 header changes
\* no discovery state and triggers no send; in the discovery loop of
\* cmd_update_run it changes no discovery state and triggers only pause
\* frames to its sender.
C40_NonInfoIgnored ==
    /\ pc = "run_recv" =>
         \A d \in NonInfoDgrams :
            ~ENABLED (RunRecv(d) /\ (discVars' # discVars \/ sent' # sent))
    /\ pc = "cfg_recv" =>
         \A d \in NonInfoBodies :
            ~ENABLED (CfgRecv(d) /\ (discVars' # discVars \/ sent' # sent))
    /\ pc = "disc_recv" =>
         \A d \in NonInfoDgrams :
            ~ENABLED (DiscRecv(d) /\ (\/ discVars' # discVars
                                      \/ \E f \in sent' \ sent : f.kind # "pause" \/ f.dst # d.src))

C40_Witness ==
    /\ pc = "disc_recv"
    /\ \E f \in sent : f.kind = "pause" /\ f.dst = IpF
    /\ recv_info_list = <<>>

====
